---- MODULE Spec2Model ----
(***************************************************************************)
(* A model of vulkano.h: the swapchain manager, the frame synchronisation  *)
(* engine, the memory-typed buffer allocator with staged copies and the    *)
(* default GPU comparator.  The driver (Vulkan) is the environment: every   *)
(* driver call returns one of the results the Vulkan specification allows  *)
(* for the state the driver is in.                                         *)
(***************************************************************************)
EXTENDS Integers, Sequences, FiniteSets, TLC

\* ------------------------------------------------------------------ bounds
\* frames the application begins
MaxFrames == 3
\* window resizes the environment performs
MaxResizes == 1
\* explicit vulkano_create_swapchain calls of the application
MaxCreates == 2
\* the surface's maxImageCount (minImageCount is SurfaceMinImages)
MaxImages == 2
\* most surface formats a driver offers
MaxFormats == 2
\* most queue families a physical device reports
MaxFamilies == 3

\* largest count of one kind of object in struct vulkano_config
MaxResources == 2
\* render passes held by vk->resources
NumRenderPasses == 1
\* largest window dimension
MaxDim == 2
\* driver handles in use before the driver hands one out again
MaxHandles == 4
\* largest VULKANO_CONCURRENT_FRAMES a build is compiled with
MaxSlots == 4
\* frames whose slot indices are computed
MaxFrameCount == 32

\* layer and extension names in use (a name is its place in strcmp's order)
MaxNames == 3

\* longest list of names handed to combine_string_arrays_unique
MaxListLen == 2

\* physical devices the driver enumerates
MaxGpus == 2

\* operations in one chain on the caller's buffer
MaxOps == 2
\* entries of the GPU's memory-type table
MaxTypes == 2
\* largest buffer capacity
MaxCapacity == 1
\* width of a GPU score in bits (the source's is 64; TLC's integers have 32)
ScoreBits == 4

\* ------------------------------------------------------- program constants
\* the element size vulkano_check_instance_extension_support hands to bsearch,
\* sizeof(VkLayerProperties) = 520, in elements of the array it searches,
\* sizeof(VkExtensionProperties) = 260
ExtensionSearchStride == 2
\* the element size vulkano_check_validation_layer_support hands to bsearch,
\* in elements of the array it searches
LayerSearchStride == 1
VULKANO_CONCURRENT_FRAMES == 2
\* the literal modulus of vulkano_submit_frame
SubmitFrameModulus == 2

Slots == 0 .. (VULKANO_CONCURRENT_FRAMES - 1)

\* enum vulkano_error_code
ErrorCodes ==
    { "OK", "BAD_CONFIGURATION", "OUT_OF_MEMORY", "FAILED_ENUMERATION",
      "FAILED_RESOURCE_CREATION", "FAILED_RESOURCE_ALLOCATION",
      "SWAPCHAIN_CONFIGURATION_FAILED", "FAILED_SWAPCHAIN_CREATION",
      "TIMEOUT", "FATAL_ERROR", "MEMORY_REQUIREMENTS_UNFULFILLED", "VALIDATION",
      "INSTANCE_CREATION_FAILED", "UNSUPPORTED_VALIDATION_LAYER",
      "UNSUPPORTED_INSTANCE_EXTENSION", "SURFACE_CREATION_FAILED",
      "NO_GPU_AVAILABLE", "NO_SUITABLE_GPU_AVAILABLE", "DEVICE_CREATION_FAILED" }

\* IS_VULKAN_MEMORY_ERROR
IS_VULKAN_MEMORY_ERROR(result) ==
    result \in { "VK_ERROR_OUT_OF_HOST_MEMORY", "VK_ERROR_OUT_OF_DEVICE_MEMORY" }

\* handles: 0 is VK_NULL_HANDLE / NULL, Garbage is the content of memory that
\* malloc returned and nothing has written yet, n > 0 is a live driver object
Garbage == -1
NullArray == << >>

VARIABLES
    error_code,     \* struct vulkano_error .code of the caller's record
    pc,             \* where the application is
    op,             \* the library function that took the last step ("env": none)
    ret,            \* whether that step raised an error: "ok", "err", "none"
    entry,          \* the code the error record held when that step was entered
    ncalls,         \* driver calls made by the last step
    ncreate,        \* driver objects created by the last step
    ndestroy,       \* driver destroy/free calls made by the last step
    caps,           \* VkSurfaceCapabilitiesKHR of the surface
    window,         \* the window size the query_size callback reports
    stale,          \* the driver's view of the swapchain against the surface
    resizes,        \* resizes so far
    creates,        \* explicit create_swapchain calls so far
    next_handle,    \* the next fresh driver handle
    swapchain,      \* struct vulkano_swapchain_state
    rendering,      \* struct vulkano_rendering_state
    frame,          \* struct vulkano_frame of the caller
    inflight,       \* queue submissions the GPU has not finished, oldest first
    present_ood,    \* handle of the swapchain whose last present was out of date
    last_present,   \* VkResult of the last vkQueuePresentKHR ("none": none yet)
    cfg_args,       \* the arguments of the last vulkano_configure_swapchain call
    memory_types,   \* gpu.memory_properties.memoryTypes[i].propertyFlags
    buffer,         \* the caller's struct vulkano_buffer
    live,           \* driver buffers and memory allocations not yet released
    mem_next,       \* the next fresh buffer/memory handle
    mem_ops,        \* operations of the chain so far
    first_error,    \* the code set by the first operation of the chain that failed
    selected,       \* what the last select_memory_type call was given and returned
    staging,        \* staging buffers the last copy created / destroyed / how filled
    gpus,           \* the two devices handed to the last default_gpu_compare
    compared,       \* its return value
    call,           \* what the vulkano_begin_frame call in progress has seen so far
    slots,          \* a build's slot count and the slots one frame's calls index
    config,         \* struct vulkano_config handed to vulkano_init, and the build
    extent_query,   \* what the extent selection of vulkano_create_swapchain was
                    \* given, what it chose and how often it called query_size
    released,       \* the driver destroy calls, in order, of the application's
                    \* last vulkano_destroy_swapchain call
    gpu_select,     \* the devices vulkano_select_gpu found and what it returned
    instance_call,  \* what vulkano_create_instance was asked for, what the driver
                    \* offers and what the call did
    merged,         \* the two lists given to combine_string_arrays_unique and
                    \* the list it returned
    boot,           \* struct vulkano object by object: what vulkano_init was
                    \* given and created, the context it returned, and the
                    \* driver calls of the last vulkano_destroy (`destroy`)
                    \* and of the one before (`previous`)
    single_use,     \* the last vulkano_submit_single_use_command_buffer call:
                    \* the driver's answers and the calls it made
    transfer,       \* one buffer or image operation: its arguments, the
                    \* driver's answers, the driver calls it made in order and
                    \* the structs it left
    device_call,    \* the queue families of the selected GPU and what
                    \* vulkano_create_device asked of the driver for them
    format_select,  \* the surface formats the driver offers and the one
                    \* vulkano_select_surface_format returned
    render_pass_call \* the render passes of vk->resources, the one the
                    \* swapchain was configured with, and the one
                    \* vulkano_begin_frame began

frame_vars ==
    << pc, caps, window, stale, resizes, creates, next_handle, swapchain,
       rendering, frame, inflight, present_ood, last_present, cfg_args >>

mem_vars ==
    << memory_types, buffer, live, mem_next, mem_ops, first_error, selected, staging >>

gpu_vars == << gpus, compared >>

trace_vars == << op, ret, entry, ncalls, ncreate, ndestroy >>

\* inputs and results of the library's functions that are checked on their own
\* those of them that the others leave alone as one
late_vars == << transfer, device_call, format_select, render_pass_call >>

pure_vars ==
    << extent_query, released, gpu_select, instance_call, merged, boot, single_use,
       transfer, device_call, format_select, render_pass_call >>

aux_vars == << call, slots, config, pure_vars >>

vars == << error_code, trace_vars, frame_vars, mem_vars, gpu_vars, aux_vars >>

\* ------------------------------------------------------------ small helpers
\* a clamp that forgets the upper limit
ClampNoUpperLimit(min, max, value) ==
    IF value < min THEN min ELSE value

\* #define CLAMP(min, max, value)
CLAMP(min, max, value) ==
    IF value < min THEN min ELSE (IF value > max THEN max ELSE value)

IsLive(h) == h > 0

\* entries of a per-image array that pass the loop's `if (array[i])` as a
\* driver object
CountLive(s) == Cardinality({ i \in DOMAIN s : IsLive(s[i]) })

\* entries of a per-image array that nothing has written
CountGarbage(s) == Cardinality({ i \in DOMAIN s : s[i] = Garbage })

\* vulkano_out_of_memory / vulkano_fatal_error: the code they leave
OomOrFatal(result) ==
    IF IS_VULKAN_MEMORY_ERROR(result) THEN "OUT_OF_MEMORY" ELSE "FATAL_ERROR"

\* ------------------------------------------------------------- the driver
\* window sizes: 0 is a minimised window
Extents == { [ width |-> n, height |-> n ] : n \in 0 .. MaxDim }

\* VkSurfaceCapabilitiesKHR as the driver reports it for a window size:
\* use_sentinel is the platform on which currentExtent is 0xFFFFFFFF
SurfaceCaps ==
    [ minImageCount : { 2 }, maxImageCount : { MaxImages },
      minExtent : { 1 }, maxExtent : { MaxDim }, use_sentinel : BOOLEAN ]

Sentinel == [ width |-> -1, height |-> -1 ]

CurrentExtent == IF caps.use_sentinel THEN Sentinel ELSE window

\* 0xFFFFFFFF in VkExtent2D.width
IsSentinel(extent) == extent.width = -1

\* the handle the driver hands out after h: the handles of destroyed objects
\* come back after MaxHandles creations
NextHandle(h) == (h % MaxHandles) + 1

\* the driver's view of a swapchain it has just created: a surface that stays
\* suboptimal finds every swapchain suboptimal
StaleAfterCreate(st) == IF st = "stays_suboptimal" THEN st ELSE "ok"

\* what the driver can answer to vkCreateSwapchainKHR and what the library
\* does with it: the place where vulkano_create_swapchain stops
CreateOutcomes(n) ==
    [ at : { "none", "caps", "create", "getimages",
             "malloc_fb", "malloc_iv", "malloc_both" }, i : { 0 } ]
    \cup [ at : { "view", "framebuffer" }, i : 1 .. n ]

\* ------------------------------------------------- vulkano_destroy_swapchain
\* a destroy that does not test the swapchain handle before destroying it
DestroySwapchainCallsUnchecked(sc) ==
    CountLive(sc.image_views) + CountLive(sc.framebuffers) + 1

\* driver destroy calls on handles that are live objects
DestroySwapchainCalls(sc) ==
    CountLive(sc.image_views) + CountLive(sc.framebuffers)
    + (IF sc.handle # 0 THEN 1 ELSE 0)

\* array entries the destroy loops read that nothing has written
DestroySwapchainGarbageReads(sc) ==
    CountGarbage(sc.image_views)
    + CountGarbage(sc.framebuffers)

\* indices of the entries of a per-image array that nothing has written
GarbageIndices(s) == { i \in DOMAIN s : s[i] = Garbage }

\* one destroy loop: the entries from j on that pass `if (array[i])`, in the
\* order of the loop; `nonzero` are the unwritten entries that read as non-null
RECURSIVE DestroyLoop(_, _, _, _)
DestroyLoop(kind, s, nonzero, j) ==
    IF j > Len(s) THEN << >>
    ELSE (IF IsLive(s[j]) \/ (s[j] = Garbage /\ j \in nonzero)
          THEN << [ kind |-> kind, index |-> j, handle |-> s[j] ] >>
          ELSE << >>)
         \o DestroyLoop(kind, s, nonzero, j + 1)

\* the driver destroy calls of vulkano_destroy_swapchain, in order
DestroySwapchainOrder(sc, nonzero_views, nonzero_framebuffers) ==
    DestroyLoop("image_view", sc.image_views, nonzero_views, 1)
    \o DestroyLoop("framebuffer", sc.framebuffers, nonzero_framebuffers, 1)
    \o (IF sc.handle # 0
        THEN << [ kind |-> "swapchain", index |-> 0, handle |-> sc.handle ] >>
        ELSE << >>)

\* a destroy that frees the image views and forgets the framebuffer array
DestroySwapchainStateKeepsFramebuffers(sc) ==
    [ sc EXCEPT !.image_views = NullArray,
                !.handle = 0 ]

DestroySwapchainState(sc) ==
    [ sc EXCEPT !.image_views = NullArray,
                !.framebuffers = NullArray,
                !.handle = 0 ]

TornDown(sc) ==
    sc.handle = 0 /\ sc.image_views = NullArray /\ sc.framebuffers = NullArray

\* -------------------------------------------------- vulkano_create_swapchain
\* select swapchain extent: the extent chosen for VkSurfaceCapabilitiesKHR
\* `capabilities` when the query_size callback reports `size`, and the number
\* of times the callback is called
SelectSwapchainExtent(capabilities, size) ==
    IF IsSentinel(capabilities.currentExtent)
    THEN [ extent |->
             [ width |-> CLAMP(capabilities.minImageExtent.width,
                               capabilities.maxImageExtent.width, size.width),
               height |-> CLAMP(capabilities.minImageExtent.height,
                                capabilities.maxImageExtent.height, size.height) ],
           queried |-> 1 ]
    ELSE [ extent |-> capabilities.currentExtent, queried |-> 0 ]

\* the same on a surface whose limits are the same in both dimensions
ResolveExtent(current, win, c) ==
    SelectSwapchainExtent(
        [ currentExtent |-> current,
          minImageExtent |-> [ width |-> c.minExtent, height |-> c.minExtent ],
          maxImageExtent |-> [ width |-> c.maxExtent, height |-> c.maxExtent ] ],
        win).extent

\* the per-image array after the creation loop stopped: entries below `filled`
\* hold objects of generation h, the others what malloc left there
PartialArray(n, filled, h) == [ j \in 1 .. n |-> IF j <= filled THEN h ELSE Garbage ]

\* the swapchain state when creation stops at outcome o, before any cleanup
CreateSwapchainReached(sc, o, h, current, win, c) ==
    LET n == sc.image_count
        ext == [ sc EXCEPT !.extent = ResolveExtent(current, win, c) ]
        made == [ ext EXCEPT !.handle = h ]
    IN  CASE o.at = "caps" -> sc
          [] o.at = "create" -> ext
          [] o.at = "getimages" -> made
          [] o.at = "malloc_fb" ->
                [ made EXCEPT !.framebuffers = NullArray,
                              !.image_views = PartialArray(n, 0, h) ]
          [] o.at = "malloc_iv" ->
                [ made EXCEPT !.framebuffers = PartialArray(n, 0, h),
                              !.image_views = NullArray ]
          [] o.at = "malloc_both" ->
                [ made EXCEPT !.framebuffers = NullArray,
                              !.image_views = NullArray ]
          [] o.at = "view" ->
                [ made EXCEPT !.framebuffers = PartialArray(n, o.i - 1, h),
                              !.image_views = PartialArray(n, o.i - 1, h) ]
          [] o.at = "framebuffer" ->
                [ made EXCEPT !.framebuffers = PartialArray(n, o.i - 1, h),
                              !.image_views = PartialArray(n, o.i, h) ]
          [] OTHER ->
                [ made EXCEPT !.framebuffers = PartialArray(n, n, h),
                              !.image_views = PartialArray(n, n, h) ]

\* the error code vulkano_create_swapchain sets at outcome o ("OK": none)
CreateSwapchainError(o) ==
    CASE o.at = "caps" -> "FAILED_ENUMERATION"
      [] o.at = "create" -> "FAILED_SWAPCHAIN_CREATION"
      [] o.at = "getimages" -> "FAILED_ENUMERATION"
      [] o.at \in { "malloc_fb", "malloc_iv", "malloc_both" } -> "OUT_OF_MEMORY"
      [] o.at \in { "view", "framebuffer" } -> "FAILED_RESOURCE_CREATION"
      [] OTHER -> "OK"

\* the failures after which vulkano_create_swapchain calls
\* vulkano_destroy_swapchain before it returns
CreateSwapchainCleansUp(o) == o.at \notin { "none", "caps", "create" }

\* driver objects created up to outcome o
CreateSwapchainCreated(sc, o) ==
    CASE o.at \in { "caps", "create" } -> 0
      [] o.at \in { "getimages", "malloc_fb", "malloc_iv", "malloc_both" } -> 1
      [] o.at = "view" -> 1 + 2 * (o.i - 1)
      [] o.at = "framebuffer" -> 1 + 2 * (o.i - 1) + 1
      [] OTHER -> 1 + 2 * sc.image_count

\* the whole call: [swapchain, code, created, destroyed, garbage]
CreateSwapchain(sc, o, h, current, win, c) ==
    LET reached == CreateSwapchainReached(sc, o, h, current, win, c)
        cleans == CreateSwapchainCleansUp(o)
    IN  [ swapchain |-> IF cleans THEN DestroySwapchainState(reached) ELSE reached,
          code |-> CreateSwapchainError(o),
          created |-> CreateSwapchainCreated(sc, o),
          destroyed |-> IF cleans THEN DestroySwapchainCalls(reached) ELSE 0,
          garbage |-> IF cleans THEN DestroySwapchainGarbageReads(reached) ELSE 0 ]

\* error->code after a step that raises `code` ("OK": raises nothing)
Raise(old, code) == IF code = "OK" THEN old ELSE code

\* what the caller reads in its error record when a call returns
SeesOk(code) == code = "OK"

\* a step of a library function: what it is, whether it raised, what it called
Trace(name, raised, calls, created, destroyed) ==
    /\ op' = name
    /\ ret' = (IF raised = "OK" THEN "ok" ELSE "err")
    /\ entry' = error_code
    /\ ncalls' = calls
    /\ ncreate' = created
    /\ ndestroy' = destroyed

EnvTrace ==
    /\ op' = "env" /\ ret' = "none" /\ entry' = "OK"
    /\ ncalls' = 0 /\ ncreate' = 0 /\ ndestroy' = 0

ZeroSwapchain ==
    [ handle |-> 0, query_size |-> FALSE, render_pass |-> 0,
      extent |-> [ width |-> 0, height |-> 0 ], image_count |-> 0,
      image_views |-> NullArray, framebuffers |-> NullArray ]

ZeroRendering ==
    [ frame_count |-> 0,
      command_buffers |-> [ i \in Slots |-> "null" ],
      frame_complete |-> [ i \in Slots |-> "null" ] ]

ZeroFrame == [ number |-> 0, command_buffer |-> 0, image_index |-> 0, framebuffer |-> 0 ]

\* ----------------------------------------------- vulkano_configure_swapchain
\* a validation that forgets the upper limit of the image count
ConfigureSwapchainErrorNoUpperLimit(caps_ok, image_count, render_pass_index, c) ==
    IF ~caps_ok THEN "FAILED_ENUMERATION"
    ELSE IF render_pass_index >= NumRenderPasses THEN "BAD_CONFIGURATION"
    ELSE IF image_count < c.minImageCount THEN "SWAPCHAIN_CONFIGURATION_FAILED"
    ELSE "OK"

\* the error the call raises ("OK": none), in the order the code tests
ConfigureSwapchainError(caps_ok, image_count, render_pass_index, c) ==
    IF ~caps_ok THEN "FAILED_ENUMERATION"
    ELSE IF render_pass_index >= NumRenderPasses THEN "BAD_CONFIGURATION"
    ELSE IF image_count < c.minImageCount \/ image_count > c.maxImageCount
         THEN "SWAPCHAIN_CONFIGURATION_FAILED"
    ELSE "OK"

\* vk->resources.render_passes[index]
RenderPassHandle(index) == index + 1

ConfigureSwapchainState(sc, code, image_count, render_pass_index) ==
    CASE code = "FAILED_ENUMERATION" -> sc
      [] code = "BAD_CONFIGURATION" -> [ sc EXCEPT !.query_size = TRUE ]
      [] code = "SWAPCHAIN_CONFIGURATION_FAILED" ->
            [ sc EXCEPT !.query_size = TRUE,
                        !.render_pass = RenderPassHandle(render_pass_index) ]
      [] OTHER ->
            [ sc EXCEPT !.query_size = TRUE,
                        !.render_pass = RenderPassHandle(render_pass_index),
                        !.image_count = image_count ]

ConfigureSwapchain(caps_ok, image_count, render_pass_index) ==
    /\ pc = "init"
    /\ LET code == ConfigureSwapchainError(caps_ok, image_count, render_pass_index, caps)
       IN  /\ swapchain' = ConfigureSwapchainState(swapchain, code, image_count,
                                                   render_pass_index)
           /\ error_code' = Raise(error_code, code)
           /\ pc' = IF SeesOk(error_code') THEN "configured" ELSE "init"
           /\ Trace("configure_swapchain", code, 1, 0, 0)
           /\ cfg_args' = [ caps_ok |-> caps_ok, image_count |-> image_count,
                            render_pass_index |-> render_pass_index ]
    /\ UNCHANGED << caps, window, stale, resizes, creates, next_handle, rendering,
                    frame, inflight, present_ood, last_present, mem_vars, gpu_vars, aux_vars >>

\* ------------------------------------ the application's swapchain calls
\* vulkano_create_swapchain called by the application on a torn-down swapchain
AppCreateSwapchain(o) ==
    /\ pc = "configured"
    /\ TornDown(swapchain)
    /\ creates < MaxCreates
    /\ LET r == CreateSwapchain(swapchain, o, next_handle, CurrentExtent, window, caps)
       IN  /\ swapchain' = r.swapchain
           /\ error_code' = Raise(error_code, r.code)
           /\ next_handle' = IF r.created > 0 THEN NextHandle(next_handle)
                              ELSE next_handle
           /\ stale' = IF r.code = "OK" THEN StaleAfterCreate(stale) ELSE stale
           \* each uninitialised entry the cleanup reads may look like a handle
           /\ \E g \in 0 .. r.garbage :
                Trace("create_swapchain", r.code, r.created + r.destroyed + g + 1,
                      r.created, r.destroyed + g)
    /\ creates' = creates + 1
    /\ UNCHANGED << pc, caps, window, resizes, rendering, frame, inflight,
                    present_ood, last_present, cfg_args, mem_vars, gpu_vars, aux_vars >>

\* vulkano_destroy_swapchain called by the application
AppDestroySwapchain ==
    /\ pc = "configured"
    /\ swapchain' = DestroySwapchainState(swapchain)
    /\ \E nonzero_views \in SUBSET GarbageIndices(swapchain.image_views),
          nonzero_framebuffers \in SUBSET GarbageIndices(swapchain.framebuffers) :
            released' = DestroySwapchainOrder(swapchain, nonzero_views,
                                              nonzero_framebuffers)
    /\ Trace("destroy_swapchain", "OK", DestroySwapchainCalls(swapchain), 0,
             DestroySwapchainCalls(swapchain))
    /\ UNCHANGED << error_code, pc, caps, window, stale, resizes, creates,
                    next_handle, rendering, frame, inflight, present_ood,
                    last_present, cfg_args, mem_vars, gpu_vars, call, slots,
                    config, extent_query, gpu_select, instance_call, merged,
                    boot, single_use, late_vars >>

\* -------------------------------------------- vulkano_create_rendering_state
RenderingSteps == { "command_buffer", "image_ready", "rendering_complete", "fence" }

RenderingOutcomes ==
    { [ slot |-> VULKANO_CONCURRENT_FRAMES, step |-> "none" ] }
    \cup [ slot : Slots, step : RenderingSteps ]

CreateRenderingStateError(o) ==
    CASE o.step = "none" -> "OK"
      [] o.step = "command_buffer" -> "FAILED_RESOURCE_ALLOCATION"
      [] OTHER -> "FAILED_RESOURCE_CREATION"

\* slots below o.slot are complete; slot o.slot got what precedes o.step;
\* every fence is created with VK_FENCE_CREATE_SIGNALED_BIT
CreateRenderingStateState(r, o) ==
    [ r EXCEPT
        !.command_buffers =
            [ i \in Slots |->
                IF i < o.slot \/ (i = o.slot /\ o.step # "command_buffer")
                THEN "initial" ELSE r.command_buffers[i] ],
        !.frame_complete =
            [ i \in Slots |-> IF i < o.slot THEN "signaled" ELSE r.frame_complete[i] ] ]

CreateRenderingState(o) ==
    /\ pc = "configured"
    /\ swapchain.handle # 0
    /\ rendering' = CreateRenderingStateState(rendering, o)
    /\ error_code' = Raise(error_code, CreateRenderingStateError(o))
    /\ pc' = IF SeesOk(error_code') THEN "idle" ELSE "failed"
    /\ Trace("create_rendering_state", CreateRenderingStateError(o), 1, 1, 0)
    /\ UNCHANGED << caps, window, stale, resizes, creates, next_handle, swapchain,
                    frame, inflight, present_ood, last_present, cfg_args,
                    mem_vars, gpu_vars, aux_vars >>

\* -------------------------------------------------------------- vulkano_init
\* where vulkano_init can stop before it configures the swapchain: a callback
\* or driver call that fails ("none": all succeed)
InitEarlySteps ==
    { "none", "instance", "surface", "enumerate_gpus", "no_gpu", "no_suitable_gpu",
      "device", "command_pool", "render_passes_malloc", "render_pass" }

InitEarlyError(at) ==
    CASE at = "instance" -> "INSTANCE_CREATION_FAILED"
      [] at = "surface" -> "SURFACE_CREATION_FAILED"
      [] at = "enumerate_gpus" -> "FAILED_ENUMERATION"
      [] at = "no_gpu" -> "NO_GPU_AVAILABLE"
      [] at = "no_suitable_gpu" -> "NO_SUITABLE_GPU_AVAILABLE"
      [] at = "device" -> "DEVICE_CREATION_FAILED"
      [] at = "command_pool" -> "OUT_OF_MEMORY"
      [] at = "render_passes_malloc" -> "OUT_OF_MEMORY"
      [] at = "render_pass" -> "FAILED_RESOURCE_CREATION"
      [] OTHER -> "OK"

\* vulkano_create_render_passes: vk->resources.render_passes stays NULL when
\* the configuration holds no render pass
RenderPassesCreated(cfg) == cfg.render_pass_count # 0

\* the error of the vulkano_configure_swapchain call inside vulkano_init; with
\* no render pass every index is out of range
InitConfigureError(cfg, caps_ok, c) ==
    IF cfg.render_pass_count = 0
    THEN (IF ~caps_ok THEN "FAILED_ENUMERATION" ELSE "BAD_CONFIGURATION")
    ELSE ConfigureSwapchainError(caps_ok, cfg.swapchain_image_count,
                                 cfg.swapchain_render_pass_index, c)

\* driver objects vulkano_create_rendering_state created up to outcome o
RenderingCreated(o) ==
    IF o.step = "none" THEN 4 * VULKANO_CONCURRENT_FRAMES
    ELSE 4 * o.slot
         + (CASE o.step = "command_buffer" -> 0
              [] o.step = "image_ready" -> 1
              [] o.step = "rendering_complete" -> 2
              [] OTHER -> 3)

\* the whole of vulkano_init on the configuration `config`: ndebug is the
\* build (assert compiled out), early/caps_ok/o/ro are the driver's answers.
\* The call counts of the trace are those of the swapchain and rendering
\* state objects.
VulkanoInit(early, ndebug, caps_ok, o, ro) ==
    /\ pc = "start"
    /\ early \in { "render_passes_malloc", "render_pass" } => RenderPassesCreated(config)
    /\ LET callbacks == config.surface_creation /\ config.query_size
           reaches_configure == callbacks /\ early = "none"
           asserts == reaches_configure /\ ~RenderPassesCreated(config) /\ ~ndebug
           configure_error == InitConfigureError(config, caps_ok, caps)
           configured ==
               ConfigureSwapchainState(ZeroSwapchain, configure_error,
                                       config.swapchain_image_count,
                                       config.swapchain_render_pass_index)
           r == CreateSwapchain(configured, o, next_handle, CurrentExtent, window, caps)
           rendering_error == CreateRenderingStateError(ro)
           code == IF ~callbacks THEN "BAD_CONFIGURATION"
                   ELSE IF early # "none" THEN InitEarlyError(early)
                   ELSE IF configure_error # "OK" THEN configure_error
                   ELSE IF r.code # "OK" THEN r.code
                   ELSE rendering_error
           swapchain_created ==
               IF reaches_configure /\ configure_error = "OK" THEN r.created ELSE 0
           rendering_created ==
               IF reaches_configure /\ configure_error = "OK" /\ r.code = "OK"
               THEN RenderingCreated(ro) ELSE 0
           created == swapchain_created + rendering_created
       IN  IF asserts
           THEN /\ pc' = "aborted"
                /\ Trace("vulkano_init", "OK", 0, 0, 0)
                /\ UNCHANGED << error_code, swapchain, rendering, next_handle >>
           ELSE /\ error_code' = Raise(error_code, code)
                /\ pc' = IF SeesOk(error_code') THEN "idle" ELSE "failed"
                \* cleanup: vulkano_destroy zeroes the whole struct
                /\ swapchain' = IF SeesOk(error_code') THEN r.swapchain ELSE ZeroSwapchain
                /\ rendering' = IF SeesOk(error_code')
                                THEN CreateRenderingStateState(ZeroRendering, ro)
                                ELSE ZeroRendering
                /\ next_handle' = IF swapchain_created > 0 THEN NextHandle(next_handle)
                                  ELSE next_handle
                /\ \E g \in 0 .. (IF swapchain_created > 0 THEN r.garbage ELSE 0) :
                     Trace("vulkano_init", code,
                           created + (IF code = "OK" THEN 0 ELSE created + g), created,
                           IF code = "OK" THEN 0 ELSE created + g)
    /\ cfg_args' = [ caps_ok |-> caps_ok, image_count |-> config.swapchain_image_count,
                     render_pass_index |-> config.swapchain_render_pass_index ]
    /\ UNCHANGED << caps, window, stale, resizes, creates, frame, inflight,
                    present_ood, last_present, mem_vars, gpu_vars, aux_vars >>

\* ------------------------------------------------------- vulkano_begin_frame
\* what vkWaitForFences can return for a fence in state f: VK_SUCCESS only for
\* a signaled fence, VK_TIMEOUT only for one that did not signal in time
WaitForFencesResults(f) ==
    (IF f = "signaled" THEN { "VK_SUCCESS" } ELSE { "VK_TIMEOUT" })
    \cup { "VK_ERROR_OUT_OF_HOST_MEMORY", "VK_ERROR_DEVICE_LOST" }

\* a fence wait whose VK_TIMEOUT is taken for success
BeginFrameWaitTimeoutIgnored(result) ==
    IF IS_VULKAN_MEMORY_ERROR(result) THEN "OUT_OF_MEMORY"
    ELSE IF result \notin { "VK_SUCCESS", "VK_TIMEOUT" } THEN "FATAL_ERROR"
    ELSE "OK"

\* a fence wait without the VK_TIMEOUT test: the timeout falls through to the
\* test for any other failure
BeginFrameWaitTimeoutFatal(result) ==
    IF IS_VULKAN_MEMORY_ERROR(result) THEN "OUT_OF_MEMORY"
    ELSE IF result # "VK_SUCCESS" THEN "FATAL_ERROR"
    ELSE "OK"

\* the error vulkano_begin_frame raises for the result of its fence wait
BeginFrameWaitError(result) ==
    IF result = "VK_TIMEOUT" THEN "TIMEOUT"
    ELSE IF IS_VULKAN_MEMORY_ERROR(result) THEN "OUT_OF_MEMORY"
    ELSE IF result # "VK_SUCCESS" THEN "FATAL_ERROR"
    ELSE "OK"

\* the slot vulkano_begin_frame uses in a build with concurrent_frames slots
BeginFrameIndex(frame_count, concurrent_frames) == frame_count % concurrent_frames

\* no driver result seen yet
NoCall ==
    [ wait |-> "none", acquire |-> "none", surface |-> [ width |-> 0, height |-> 0 ] ]

\* the extent a swapchain created now for the surface gets: the surface's
\* current extent, resolved as vulkano_create_swapchain resolves it
SurfaceExtent == ResolveExtent(CurrentExtent, window, caps)

\* entry of vulkano_begin_frame up to the acquire_image label: slot choice,
\* fence wait, fence reset, command buffer reset
BeginFrameWait(result, reset) ==
    /\ pc = "idle"
    /\ SeesOk(error_code)
    /\ rendering.frame_count < MaxFrames
    /\ LET frame_index ==
               BeginFrameIndex(rendering.frame_count, VULKANO_CONCURRENT_FRAMES)
           wait_error == BeginFrameWaitError(result)
           code == IF wait_error # "OK" THEN wait_error
                   ELSE IF reset # "ok" THEN "OUT_OF_MEMORY" ELSE "OK"
       IN  /\ result \in WaitForFencesResults(rendering.frame_complete[frame_index])
           /\ wait_error # "OK" => reset = "ok"
           /\ frame' = [ frame EXCEPT !.command_buffer = frame_index,
                                      !.number = rendering.frame_count ]
           /\ rendering' =
                IF wait_error # "OK" \/ reset = "fence" THEN rendering
                ELSE IF reset = "command_buffer"
                THEN [ rendering EXCEPT !.frame_complete[frame_index] = "unsignaled" ]
                ELSE [ rendering EXCEPT !.frame_complete[frame_index] = "unsignaled",
                                        !.command_buffers[frame_index] = "initial" ]
           /\ error_code' = Raise(error_code, code)
           /\ pc' = IF code = "OK" THEN "acquire_image" ELSE "idle"
           /\ Trace("begin_frame", code,
                    IF wait_error # "OK" THEN 1 ELSE IF reset = "fence" THEN 2 ELSE 3,
                    0, 0)
    /\ call' = [ wait |-> result, acquire |-> "none", surface |-> SurfaceExtent ]
    /\ UNCHANGED << caps, window, stale, resizes, creates, next_handle, swapchain,
                    inflight, present_ood, last_present, cfg_args, mem_vars,
                    gpu_vars, slots, config, pure_vars >>

\* what vkAcquireNextImageKHR can return: a swapchain the surface has outgrown
\* stays out of date (or suboptimal) until it is recreated; a call on a null
\* swapchain handle is invalid and may return anything
AcquireResults(sc, st) ==
    (CASE sc.handle = 0 ->
            { "VK_ERROR_OUT_OF_DATE_KHR", "VK_SUBOPTIMAL_KHR", "VK_SUCCESS" }
       [] st = "out_of_date" -> { "VK_ERROR_OUT_OF_DATE_KHR" }
       [] st \in { "suboptimal", "stays_suboptimal" } -> { "VK_SUBOPTIMAL_KHR" }
       [] OTHER -> { "VK_SUCCESS" })
    \cup { "VK_TIMEOUT", "VK_ERROR_OUT_OF_HOST_MEMORY", "VK_ERROR_DEVICE_LOST" }

\* a test that takes only VK_ERROR_OUT_OF_DATE_KHR for a stale swapchain
AcquireIsStaleOutOfDateOnly(result) ==
    result = "VK_ERROR_OUT_OF_DATE_KHR"

\* the results on which vulkano_begin_frame rebuilds the swapchain
AcquireIsStale(result) ==
    result = "VK_ERROR_OUT_OF_DATE_KHR" \/ result = "VK_SUBOPTIMAL_KHR"

\* the error vulkano_begin_frame raises for a result of acquire that is not stale
AcquireError(result) ==
    IF result = "VK_TIMEOUT" THEN "TIMEOUT"
    ELSE IF IS_VULKAN_MEMORY_ERROR(result) THEN "OUT_OF_MEMORY"
    ELSE IF result # "VK_SUCCESS" THEN "FATAL_ERROR"
    ELSE "OK"

\* vk->swapchain.framebuffers[frame->image_index]: a read through a null
\* pointer or beyond the array yields anything
FramebufferAt(sc, index) ==
    IF index \in DOMAIN sc.framebuffers THEN sc.framebuffers[index] ELSE Garbage

\* one pass through the acquire_image label that finds the swapchain stale:
\* destroy, create, recreate the image-ready semaphore, go back to the label
BeginFrameRebuild(result, o, semaphore_ok) ==
    /\ pc = "acquire_image"
    /\ result \in AcquireResults(swapchain, stale)
    /\ AcquireIsStale(result)
    /\ LET torn == DestroySwapchainState(swapchain)
           r == CreateSwapchain(torn, o, next_handle, CurrentExtent, window, caps)
           created_code == Raise(error_code, r.code)
           code == IF r.code # "OK" THEN r.code
                   ELSE IF ~semaphore_ok THEN "FAILED_RESOURCE_CREATION" ELSE "OK"
           returns == created_code # "OK" \/ ~semaphore_ok
       IN  /\ (created_code # "OK") => semaphore_ok
           /\ swapchain' = r.swapchain
           /\ next_handle' = IF r.created > 0 THEN NextHandle(next_handle)
                              ELSE next_handle
           /\ stale' = IF r.code = "OK" THEN StaleAfterCreate(stale) ELSE stale
           /\ error_code' = Raise(error_code, code)
           /\ pc' = IF returns THEN "idle" ELSE "acquire_image"
           /\ \E g \in 0 .. r.garbage :
                Trace("begin_frame", code,
                      1 + DestroySwapchainCalls(swapchain) + 1 + r.created
                        + r.destroyed + g,
                      r.created, DestroySwapchainCalls(swapchain) + r.destroyed + g)
    /\ call' = [ call EXCEPT !.acquire = result ]
    /\ UNCHANGED << caps, window, resizes, creates, rendering, frame, inflight,
                    present_ood, last_present, cfg_args, mem_vars, gpu_vars,
                    slots, config, pure_vars >>

\* the pass through the acquire_image label that leaves it: an error, or an
\* image, the command buffer begun and the render pass begun
BeginFrameAcquire(result, index, begin_ok) ==
    /\ pc = "acquire_image"
    /\ result \in AcquireResults(swapchain, stale)
    /\ ~AcquireIsStale(result)
    /\ index \in 1 .. swapchain.image_count
    /\ LET acquire_error == AcquireError(result)
           code == IF acquire_error # "OK" THEN acquire_error
                   ELSE IF ~begin_ok THEN "OUT_OF_MEMORY" ELSE "OK"
       IN  /\ acquire_error # "OK" => (begin_ok /\ index = 1)
           /\ frame' = IF acquire_error # "OK" THEN frame
                       ELSE [ frame EXCEPT !.image_index = index,
                                           !.framebuffer = FramebufferAt(swapchain, index) ]
           /\ rendering' =
                IF code # "OK" THEN rendering
                ELSE [ rendering EXCEPT !.command_buffers[frame.command_buffer] = "recording" ]
           /\ error_code' = Raise(error_code, code)
           /\ pc' = IF SeesOk(error_code') THEN "recording" ELSE "idle"
           /\ Trace("begin_frame", code, IF acquire_error # "OK" THEN 1 ELSE 2, 0, 0)
    /\ call' = [ call EXCEPT !.acquire = result ]
    /\ UNCHANGED << caps, window, stale, resizes, creates, next_handle, swapchain,
                    inflight, present_ood, last_present, cfg_args, mem_vars,
                    gpu_vars, slots, config, pure_vars >>

\* ------------------------------------------------------ vulkano_submit_frame
\* what vkQueuePresentKHR can return, by the same rule as acquire
PresentResults(sc, st) ==
    (CASE sc.handle = 0 ->
            { "VK_ERROR_OUT_OF_DATE_KHR", "VK_SUBOPTIMAL_KHR", "VK_SUCCESS" }
       [] st = "out_of_date" -> { "VK_ERROR_OUT_OF_DATE_KHR" }
       [] st \in { "suboptimal", "stays_suboptimal" } -> { "VK_SUBOPTIMAL_KHR" }
       [] OTHER -> { "VK_SUCCESS" })
    \cup { "VK_ERROR_OUT_OF_HOST_MEMORY", "VK_ERROR_SURFACE_LOST_KHR" }

QueueSubmitResults ==
    { "VK_SUCCESS", "VK_ERROR_OUT_OF_DEVICE_MEMORY", "VK_ERROR_DEVICE_LOST" }

\* a present whose VK_ERROR_OUT_OF_DATE_KHR is reported like any other failure
PresentErrorOutOfDateRaised(result) ==
    IF result = "VK_SUCCESS" \/ result = "VK_SUBOPTIMAL_KHR" THEN "OK"
    ELSE OomOrFatal(result)

\* a present that takes only VK_SUCCESS for success
PresentErrorSuboptimalRaised(result) ==
    IF result = "VK_SUCCESS" THEN "OK"
    ELSE IF result = "VK_ERROR_OUT_OF_DATE_KHR" THEN "OK"
    ELSE OomOrFatal(result)

\* the error vulkano_submit_frame raises for a result of vkQueuePresentKHR
PresentError(result) ==
    IF result = "VK_SUCCESS" \/ result = "VK_SUBOPTIMAL_KHR" THEN "OK"
    ELSE IF result = "VK_ERROR_OUT_OF_DATE_KHR" THEN "OK"
    ELSE IF IS_VULKAN_MEMORY_ERROR(result) THEN "OUT_OF_MEMORY"
    ELSE "FATAL_ERROR"

\* the slot whose semaphores and fence vulkano_submit_frame uses
SubmitFrameIndex(frame_count) == frame_count % SubmitFrameModulus

SubmitFrame(end_ok, submit_result, present_result) ==
    /\ pc = "recording"
    /\ submit_result \in QueueSubmitResults
    /\ present_result \in PresentResults(swapchain, stale)
    /\ LET frame_index == SubmitFrameIndex(rendering.frame_count)
           submitted == end_ok /\ submit_result = "VK_SUCCESS"
           code == IF ~end_ok THEN "OUT_OF_MEMORY"
                   ELSE IF submit_result # "VK_SUCCESS" THEN OomOrFatal(submit_result)
                   ELSE PresentError(present_result)
       IN  /\ ~end_ok => submit_result = "VK_SUCCESS"
           /\ ~submitted => present_result = CHOOSE x \in PresentResults(swapchain, stale) : TRUE
           /\ rendering' =
                [ rendering EXCEPT
                    !.frame_count = rendering.frame_count + 1,
                    !.command_buffers[frame.command_buffer] =
                        IF submitted THEN "pending"
                        ELSE IF end_ok THEN "executable" ELSE "invalid" ]
           /\ inflight' =
                IF submitted
                THEN Append(inflight, [ command_buffer |-> frame.command_buffer,
                                        fence |-> frame_index,
                                        framebuffer |-> frame.framebuffer ])
                ELSE inflight
           /\ last_present' = IF submitted THEN present_result ELSE "none"
           /\ present_ood' =
                IF submitted /\ present_result = "VK_ERROR_OUT_OF_DATE_KHR"
                THEN swapchain.handle ELSE 0
           /\ error_code' = Raise(error_code, code)
           /\ Trace("submit_frame", code,
                    IF ~end_ok THEN 2 ELSE IF submitted THEN 4 ELSE 3, 0, 0)
    /\ pc' = "idle"
    /\ UNCHANGED << caps, window, stale, resizes, creates, next_handle, swapchain,
                    frame, cfg_args, mem_vars, gpu_vars, aux_vars >>

\* ----------------------------------------- the slot indices of one frame
\* frame number slots.frame_count in a build with slots.concurrent_frames
\* slots: the index vulkano_begin_frame computes, the index
\* vulkano_submit_frame computes, and submit_frame's frame_count++
FrameSlots ==
    /\ slots.frame_count < MaxFrameCount
    /\ slots' =
         [ slots EXCEPT
             !.begin = BeginFrameIndex(slots.frame_count, slots.concurrent_frames),
             !.submit = SubmitFrameIndex(slots.frame_count),
             !.frame_count = slots.frame_count + 1 ]
    /\ Trace("frame_slots", "OK", 0, 0, 0)
    /\ UNCHANGED << error_code, frame_vars, mem_vars, gpu_vars, call, config,
                    pure_vars >>

\* ------------------------------------------------------- the environment
\* the application is in its render loop: it leaves it on any error it does
\* not retry
LoopRunning == error_code \in { "OK", "TIMEOUT" }

\* the GPU finishes the oldest submission: its fence signals, its command
\* buffer leaves the pending state
GpuComplete ==
    /\ LoopRunning
    /\ inflight # << >>
    /\ LET done == Head(inflight)
       IN  rendering' =
             [ rendering EXCEPT
                 !.frame_complete[done.fence] = "signaled",
                 !.command_buffers[done.command_buffer] =
                     IF @ = "pending" THEN "executable" ELSE @ ]
    /\ inflight' = Tail(inflight)
    /\ EnvTrace
    /\ UNCHANGED << error_code, pc, caps, window, stale, resizes, creates,
                    next_handle, swapchain, frame, present_ood, last_present,
                    cfg_args, mem_vars, gpu_vars, aux_vars >>

\* the user resizes (or minimises) the window; the driver may from then on
\* find a live swapchain suboptimal or out of date, and one that is out of
\* date stays so until it is recreated
Resize(size, st) ==
    /\ pc \in { "idle", "acquire_image", "recording" }
    /\ LoopRunning
    /\ resizes < MaxResizes
    /\ size \in Extents \ { window }
    /\ st \in { "ok", "suboptimal", "out_of_date" }
    /\ window' = size
    /\ stale' = IF swapchain.handle # 0 /\ stale \notin { "out_of_date", "stays_suboptimal" }
                THEN st ELSE stale
    /\ swapchain.handle = 0 => st = "ok"
    /\ resizes' = resizes + 1
    /\ EnvTrace
    /\ UNCHANGED << error_code, pc, caps, creates, next_handle, swapchain,
                    rendering, frame, inflight, present_ood, last_present,
                    cfg_args, mem_vars, gpu_vars, aux_vars >>

\* the surface changes so that no swapchain the library creates matches it:
\* the driver reports every swapchain suboptimal from then on
SurfaceStaysSuboptimal ==
    /\ pc \in { "idle", "acquire_image", "recording" }
    /\ LoopRunning
    /\ resizes < MaxResizes
    /\ swapchain.handle # 0
    /\ stale # "stays_suboptimal"
    /\ stale' = "stays_suboptimal"
    /\ resizes' = resizes + 1
    /\ EnvTrace
    /\ UNCHANGED << error_code, pc, caps, window, creates, next_handle, swapchain,
                    rendering, frame, inflight, present_ood, last_present,
                    cfg_args, mem_vars, gpu_vars, aux_vars >>

\* the render loop tries again after a timeout, with a fresh error record
RetryAfterTimeout ==
    /\ pc = "idle"
    /\ error_code = "TIMEOUT"
    /\ error_code' = "OK"
    /\ EnvTrace
    /\ UNCHANGED << frame_vars, mem_vars, gpu_vars, aux_vars >>

\* set-up code handles a failure and starts again with a fresh error record
ClearError ==
    /\ pc \in { "init", "configured" }
    /\ error_code # "OK"
    /\ error_code' = "OK"
    /\ EnvTrace
    /\ UNCHANGED << frame_vars, mem_vars, gpu_vars, aux_vars >>

\* =========================================================================
\* Memory allocator core
\* =========================================================================
PropertyFlags == { "DEVICE_LOCAL", "HOST_VISIBLE", "HOST_COHERENT" }

ZeroBuffer ==
    [ handle |-> 0, memory |-> 0, usage |-> {}, memory_flags |-> {}, capacity |-> 0 ]

RECURSIVE Pow2(_)
Pow2(n) == IF n = 0 THEN 1 ELSE 2 * Pow2(n - 1)

\* a scan that does not consult the type-bits mask
MemoryTypeCheckIgnored(i, required_memory_type_bits) == TRUE

\* (1 << i) & required_memory_type_bits
MemoryTypeCheck(i, required_memory_type_bits) ==
    (required_memory_type_bits \div Pow2(i)) % 2 = 1

\* a scan that does not compare the property flags
MemoryPropertiesCheckIgnored(property_flags, required_memory_property_flags) == TRUE

\* required == (propertyFlags & required)
MemoryPropertiesCheck(property_flags, required_memory_property_flags) ==
    required_memory_property_flags
        = (property_flags \cap required_memory_property_flags)

RECURSIVE SelectMemoryTypeFrom(_, _, _, _)
SelectMemoryTypeFrom(types, bits, required, i) ==
    IF i >= Len(types)
    THEN [ index |-> 0, code |-> "MEMORY_REQUIREMENTS_UNFULFILLED" ]
    ELSE IF MemoryTypeCheck(i, bits) /\ MemoryPropertiesCheck(types[i + 1], required)
    THEN [ index |-> i, code |-> "OK" ]
    ELSE SelectMemoryTypeFrom(types, bits, required, i + 1)

\* select_memory_type: the index returned and the error raised ("OK": none)
select_memory_type(types, bits, required) ==
    SelectMemoryTypeFrom(types, bits, required, 0)

NotSelected ==
    [ called |-> FALSE, bits |-> 0, required |-> {}, index |-> 0, code |-> "OK",
      allocated |-> -1 ]

\* ----------------------------------------------------- vulkano_create_buffer
\* where the driver lets the call stop, and the memoryTypeBits it reports
CreateBufferOutcomes(n) ==
    [ at : { "none", "create", "allocate", "bind" }, bits : 1 .. (Pow2(n) - 1) ]

\* the call on an error record holding `err`, with fresh handles h and h + 1:
\* the struct returned, the code raised, what the record holds on return, the
\* driver objects left alive, and the select_memory_type call it made
CreateBuffer(types, capacity, usage, required, o, h, err) ==
    LET fresh == [ ZeroBuffer EXCEPT !.usage = usage, !.capacity = capacity ]
        sel == select_memory_type(types, o.bits, required)
        called == [ called |-> TRUE, bits |-> o.bits, required |-> required,
                    index |-> sel.index, code |-> sel.code, allocated |-> -1 ]
        with_handle == [ fresh EXCEPT !.handle = h ]
        with_flags == [ with_handle EXCEPT !.memory_flags = types[sel.index + 1] ]
        with_memory == [ with_flags EXCEPT !.memory = h + 1 ]
    IN  IF o.at = "create"
        THEN [ buffer |-> fresh, code |-> "FAILED_RESOURCE_CREATION",
               alive |-> {}, calls |-> 1, selected |-> NotSelected ]
        ELSE IF Raise(err, sel.code) # "OK"
        THEN [ buffer |-> with_handle, code |-> sel.code,
               alive |-> {}, calls |-> 3, selected |-> called ]
        ELSE IF o.at = "allocate"
        THEN [ buffer |-> with_flags, code |-> "FAILED_RESOURCE_ALLOCATION",
               alive |-> {}, calls |-> 4,
               selected |-> [ called EXCEPT !.allocated = sel.index ] ]
        ELSE IF o.at = "bind"
        THEN [ buffer |-> with_memory, code |-> "FAILED_RESOURCE_ALLOCATION",
               alive |-> {}, calls |-> 6,
               selected |-> [ called EXCEPT !.allocated = sel.index ] ]
        ELSE [ buffer |-> with_memory, code |-> "OK",
               alive |-> { h, h + 1 }, calls |-> 4,
               selected |-> [ called EXCEPT !.allocated = sel.index ] ]

\* the first failure of the chain, as the caller's single check should see it
FirstError(first, code) == IF first = "OK" THEN code ELSE first

\* what the last copy was asked and did with its staging buffer
NoStaging ==
    [ length |-> 0, attempts |-> 0, created |-> 0, destroyed |-> 0, path |-> "none" ]

BufferUsages == { { "VERTEX_BUFFER" }, { "VERTEX_BUFFER", "TRANSFER_DST" } }

MemCreateBuffer(capacity, usage, required, o) ==
    /\ mem_ops < MaxOps
    /\ buffer = ZeroBuffer
    /\ LET r == CreateBuffer(memory_types, capacity, usage, required, o, mem_next,
                             error_code)
       IN  /\ buffer' = r.buffer
           /\ live' = live \cup r.alive
           /\ selected' = r.selected
           /\ error_code' = Raise(error_code, r.code)
           /\ first_error' = FirstError(first_error, r.code)
           /\ Trace("create_buffer", r.code, r.calls,
                    IF r.alive = {} THEN 0 ELSE 2, 0)
    /\ mem_next' = mem_next + 2
    /\ mem_ops' = mem_ops + 1
    /\ staging' = NoStaging
    /\ UNCHANGED << memory_types, frame_vars, gpu_vars, aux_vars >>

\* ---------------------------------------------------- vulkano_destroy_buffer
DestroyBufferCalls(b) ==
    (IF b.handle # 0 THEN 1 ELSE 0) + (IF b.memory # 0 THEN 1 ELSE 0)

MemDestroyBuffer ==
    /\ mem_ops < MaxOps
    /\ buffer # ZeroBuffer
    /\ buffer' = ZeroBuffer
    /\ live' = live \ { buffer.handle, buffer.memory }
    /\ Trace("destroy_buffer", "OK", DestroyBufferCalls(buffer), 0,
             DestroyBufferCalls(buffer))
    /\ mem_ops' = mem_ops + 1
    /\ selected' = NotSelected
    /\ staging' = NoStaging
    /\ UNCHANGED << error_code, memory_types, mem_next, first_error,
                    frame_vars, gpu_vars, aux_vars >>

\* ---------------------------------------------------- vulkano_copy_to_buffer
\* the branch vulkano_copy_to_buffer takes for a buffer's memory_flags
CopyPath(b) ==
    IF "HOST_COHERENT" \in b.memory_flags THEN "host_coherent"
    ELSE IF "HOST_VISIBLE" \in b.memory_flags THEN "host_visible"
    ELSE "device_local"

\* a capacity test that is off by one
CopyOverflowsOffByOne(b, length) == b.capacity + 1 < length

\* data.length > buffer.capacity
CopyOverflows(b, length) == b.capacity < length

\* vulkano_copy_to_buffer_host_coherent / _host_visible: code raised, calls made
HostCopy(path, map_ok, flush_ok) ==
    IF ~map_ok THEN [ code |-> "OUT_OF_MEMORY", calls |-> 1 ]
    ELSE IF path = "host_coherent" THEN [ code |-> "OK", calls |-> 2 ]
    ELSE IF ~flush_ok THEN [ code |-> "OUT_OF_MEMORY", calls |-> 4 ]
    ELSE [ code |-> "OK", calls |-> 4 ]

\* vulkano_acquire_single_use_command_buffer: code raised, calls made
AcquireSingleUse(cmd) ==
    IF cmd = "allocate" THEN [ code |-> "OUT_OF_MEMORY", calls |-> 1 ]
    ELSE IF cmd = "begin" THEN [ code |-> "OUT_OF_MEMORY", calls |-> 3 ]
    ELSE [ code |-> "OK", calls |-> 2 ]

SingleUseSubmitResults ==
    { "VK_SUCCESS", "VK_TIMEOUT", "VK_ERROR_OUT_OF_DEVICE_MEMORY",
      "VK_ERROR_DEVICE_LOST" }

\* vulkano_submit_single_use_command_buffer: the code it raises for the first
\* result that is not VK_SUCCESS
SubmitSingleUseError(result) ==
    IF result = "VK_SUCCESS" THEN "OK"
    ELSE IF result = "VK_TIMEOUT" THEN "TIMEOUT"
    ELSE OomOrFatal(result)

\* what the driver answers during one copy: the call stops at the first
\* failure, so one failing call at most is drawn
NoCopyFailure(bits) ==
    [ map_ok |-> TRUE, flush_ok |-> TRUE, staging |-> [ at |-> "none", bits |-> bits ],
      cmd |-> "ok", submit |-> "VK_SUCCESS" ]

CopyFailures(bits) ==
    { [ NoCopyFailure(bits) EXCEPT !.map_ok = FALSE ],
      [ NoCopyFailure(bits) EXCEPT !.flush_ok = FALSE ] }
    \cup { [ NoCopyFailure(bits) EXCEPT !.staging.at = a ] :
                a \in { "create", "allocate", "bind" } }
    \cup { [ NoCopyFailure(bits) EXCEPT !.cmd = c ] : c \in { "allocate", "begin" } }
    \cup { [ NoCopyFailure(bits) EXCEPT !.submit = r ] : r \in SingleUseSubmitResults }

CopyOutcomes(n) ==
    UNION { { NoCopyFailure(bits) } \cup CopyFailures(bits) :
                bits \in 1 .. (Pow2(n) - 1) }

CopyResult(error, raised, calls, stg, alive, sel) ==
    [ error |-> error, raised |-> raised, calls |-> calls, staging |-> stg,
      alive |-> alive, selected |-> sel ]

\* the copy nested in the device-local path, into the staging buffer, whose
\* usage is VK_BUFFER_USAGE_TRANSFER_SRC_BIT alone: were it dispatched to the
\* device-local path again, that path's usage check would reject it
NestedCopy(stg, length, o) ==
    IF CopyOverflows(stg, length) THEN [ code |-> "VALIDATION", calls |-> 0 ]
    ELSE IF CopyPath(stg) = "device_local"
    THEN [ code |-> "VALIDATION", calls |-> 0 ]
    ELSE HostCopy(CopyPath(stg), o.map_ok, o.flush_ok)

\* vulkano_copy_to_buffer_device_local on an error record holding `err`
CopyToBufferDeviceLocal(types, b, length, o, h, err) ==
    LET st == CreateBuffer(types, length, { "TRANSFER_SRC" }, { "HOST_VISIBLE" },
                           o.staging, h, err)
        made == IF st.alive = {} THEN 0 ELSE 1
        e1 == Raise(err, st.code)
        nested == NestedCopy(st.buffer, length, o)
        e2 == Raise(e1, nested.code)
        cmd == AcquireSingleUse(o.cmd)
        e3 == Raise(e2, cmd.code)
        sub == SubmitSingleUseError(o.submit)
        e4 == Raise(e3, sub)
        freed == DestroyBufferCalls(st.buffer)
        cleaned(path) ==
            [ length |-> length, attempts |-> 1, created |-> made, destroyed |-> 1,
              path |-> path ]
    IN  IF "TRANSFER_DST" \notin b.usage
        THEN CopyResult("VALIDATION", "VALIDATION", 0,
                        [ NoStaging EXCEPT !.length = length ], {}, NotSelected)
        ELSE IF e1 # "OK"
        THEN CopyResult(e1, st.code, st.calls,
                        [ length |-> length, attempts |-> 1, created |-> made,
                          destroyed |-> 0, path |-> "none" ], st.alive, st.selected)
        ELSE IF e2 # "OK"
        THEN CopyResult(e2, nested.code, st.calls + nested.calls + freed,
                        cleaned(CopyPath(st.buffer)), {}, st.selected)
        ELSE IF e3 # "OK"
        THEN CopyResult(e3, cmd.code, st.calls + nested.calls + cmd.calls + freed,
                        cleaned(CopyPath(st.buffer)), {}, st.selected)
        ELSE CopyResult(e4, sub,
                        st.calls + nested.calls + cmd.calls + 7 + freed,
                        cleaned(CopyPath(st.buffer)), {}, st.selected)

\* vulkano_copy_to_buffer on an error record holding `err`
CopyToBuffer(types, b, length, o, h, err) ==
    LET none == [ NoStaging EXCEPT !.length = length ]
        host == HostCopy(CopyPath(b), o.map_ok, o.flush_ok)
    IN  IF CopyOverflows(b, length)
        THEN CopyResult("VALIDATION", "VALIDATION", 0, none, {}, NotSelected)
        ELSE IF CopyPath(b) = "device_local"
        THEN CopyToBufferDeviceLocal(types, b, length, o, h, err)
        ELSE CopyResult(Raise(err, host.code), host.code, host.calls, none, {},
                        NotSelected)

MemCopyToBuffer(length, o) ==
    /\ mem_ops < MaxOps
    /\ buffer.capacity > 0
    /\ LET r == CopyToBuffer(memory_types, buffer, length, o, mem_next, error_code)
       IN  /\ live' = live \cup r.alive
           /\ selected' = r.selected
           /\ staging' = r.staging
           /\ error_code' = r.error
           /\ first_error' = FirstError(first_error, r.raised)
           /\ Trace("copy_to_buffer", r.raised, r.calls, 2 * r.staging.created,
                    2 * r.staging.destroyed)
    /\ mem_next' = mem_next + 2
    /\ mem_ops' = mem_ops + 1
    /\ UNCHANGED << buffer, memory_types, frame_vars, gpu_vars, aux_vars >>

\* the caller reads the record, handles the failure and starts a new chain
MemClearError ==
    /\ mem_ops < MaxOps
    /\ error_code # "OK"
    /\ error_code' = "OK"
    /\ first_error' = "OK"
    /\ EnvTrace
    /\ mem_ops' = mem_ops + 1
    /\ selected' = NotSelected
    /\ staging' = NoStaging
    /\ UNCHANGED << memory_types, buffer, live, mem_next, frame_vars, gpu_vars, aux_vars >>

\* =========================================================================
\* GPU ranking
\* =========================================================================
DeviceTypes == { "DISCRETE_GPU", "INTEGRATED_GPU", "VIRTUAL_GPU", "OTHER" }

\* uint64_t arithmetic, at ScoreBits bits
ScoreModulus == Pow2(ScoreBits)

HeapSizes == 0 .. (ScoreModulus - 1)

\* VkPhysicalDeviceMemoryProperties.memoryHeaps: the device-local heap comes
\* first, or after a heap of host memory
HeapLists ==
    { << [ device_local |-> TRUE, size |-> n ] >> : n \in HeapSizes }
    \cup { << [ device_local |-> FALSE, size |-> ScoreModulus - 1 ],
              [ device_local |-> TRUE, size |-> n ] >> : n \in HeapSizes }

Gpus == [ deviceType : DeviceTypes, memoryHeaps : HeapLists ]

\* static const uint64_t DISCRETE, INTEGRATED, VIRTUAL
TierScore(deviceType) ==
    IF deviceType = "DISCRETE_GPU" THEN Pow2(ScoreBits - 1)
    ELSE IF deviceType = "INTEGRATED_GPU" THEN Pow2(ScoreBits - 2)
    ELSE IF deviceType = "VIRTUAL_GPU" THEN Pow2(ScoreBits - 3)
    ELSE 0

RECURSIVE FirstDeviceLocalHeap(_, _)
FirstDeviceLocalHeap(heaps, i) ==
    IF i > Len(heaps) THEN 0
    ELSE IF heaps[i].device_local THEN heaps[i].size
    ELSE FirstDeviceLocalHeap(heaps, i + 1)

score_gpu(gpu) ==
    (TierScore(gpu.deviceType) + FirstDeviceLocalHeap(gpu.memoryHeaps, 1))
        % ScoreModulus

default_gpu_compare(gpu1, gpu2) ==
    LET score1 == score_gpu(gpu1)
        score2 == score_gpu(gpu2)
    IN  IF score1 = score2 THEN 0 ELSE IF score1 < score2 THEN -1 ELSE 1

NotCompared == [ called |-> FALSE, value |-> 0 ]

GpuCompare ==
    /\ ~compared.called
    /\ compared' = [ called |-> TRUE, value |-> default_gpu_compare(gpus[1], gpus[2]) ]
    /\ Trace("default_gpu_compare", "OK", 4, 0, 0)
    /\ UNCHANGED << error_code, gpus, frame_vars, mem_vars, aux_vars >>

\* =========================================================================
\* Specifications
\* =========================================================================
\* struct vulkano_config zero-initialised: (struct vulkano_config){0}
ZeroConfig ==
    [ surface_creation |-> FALSE, query_size |-> FALSE, render_pass_count |-> 0,
      swapchain_image_count |-> 0, swapchain_render_pass_index |-> 0 ]

\* no extent selected yet
NoExtentQuery ==
    [ capabilities |->
        [ currentExtent |-> [ width |-> 0, height |-> 0 ],
          minImageExtent |-> [ width |-> 0, height |-> 0 ],
          maxImageExtent |-> [ width |-> 0, height |-> 0 ] ],
      size |-> [ width |-> 0, height |-> 0 ],
      extent |-> [ width |-> 0, height |-> 0 ],
      queried |-> 0, done |-> FALSE ]

\* no GPU selected yet, on a system without devices
NoGpuSelect ==
    [ devices |-> << >>, enumerate |-> "ok", handle |-> 0, code |-> "OK",
      done |-> FALSE ]

\* no instance asked for yet
NoInstanceCall ==
    [ available_layers |-> {}, supported_extensions |-> {}, layers |-> {},
      extensions |-> {}, driver |-> "ok", code |-> "OK", created |-> FALSE,
      done |-> FALSE ]

\* no lists merged yet
NoMerge ==
    [ array1 |-> << >>, array2 |-> << >>, malloc_ok |-> TRUE, combined |-> << >>,
      code |-> "OK", done |-> FALSE ]

\* vulkano_init not called yet
NoBoot == [ phase |-> "none" ]

\* no single use command buffer submitted yet
NoSingleUse == [ phase |-> "none" ]

\* no buffer or image operation called yet
NoTransfer == [ phase |-> "none" ]

\* no device created yet
NoDeviceCall == [ phase |-> "none" ]

\* no surface format selected yet
NoFormatSelect == [ phase |-> "none" ]

\* no frame begun yet
NoRenderPassCall == [ phase |-> "none" ]

\* none of the functions checked on their own has been called, `v` aside
PureIdleBut(v) ==
    /\ IF v = "extent_query" THEN TRUE ELSE extent_query = NoExtentQuery
    /\ IF v = "released" THEN TRUE ELSE released = << >>
    /\ IF v = "gpu_select" THEN TRUE ELSE gpu_select = NoGpuSelect
    /\ IF v = "instance_call" THEN TRUE ELSE instance_call = NoInstanceCall
    /\ IF v = "merged" THEN TRUE ELSE merged = NoMerge
    /\ IF v = "boot" THEN TRUE ELSE boot = NoBoot
    /\ IF v = "single_use" THEN TRUE ELSE single_use = NoSingleUse
    /\ IF v = "transfer" THEN TRUE ELSE transfer = NoTransfer
    /\ IF v = "device_call" THEN TRUE ELSE device_call = NoDeviceCall
    /\ IF v = "format_select" THEN TRUE ELSE format_select = NoFormatSelect
    /\ IF v = "render_pass_call" THEN TRUE ELSE render_pass_call = NoRenderPassCall

PureIdle == PureIdleBut("none")

\* the default build (VULKANO_CONCURRENT_FRAMES not overridden), no frame yet
NoSlots ==
    [ concurrent_frames |-> VULKANO_CONCURRENT_FRAMES, frame_count |-> 0,
      begin |-> 0, submit |-> 0 ]

TraceInit ==
    /\ error_code = "OK"
    /\ op = "env" /\ ret = "none" /\ entry = "OK"
    /\ ncalls = 0 /\ ncreate = 0 /\ ndestroy = 0

\* no vulkano_begin_frame call yet, the default build, no vulkano_init call
AuxIdle ==
    /\ call = NoCall
    /\ slots = NoSlots
    /\ config = ZeroConfig
    /\ PureIdle

MemIdle ==
    /\ buffer = ZeroBuffer
    /\ live = {}
    /\ mem_next = 1
    /\ mem_ops = 0
    /\ first_error = "OK"
    /\ selected = NotSelected
    /\ staging = NoStaging

GpuIdle ==
    /\ gpus = << [ deviceType |-> "OTHER",
                   memoryHeaps |-> << [ device_local |-> TRUE, size |-> 0 ] >> ],
                 [ deviceType |-> "OTHER",
                   memoryHeaps |-> << [ device_local |-> TRUE, size |-> 0 ] >> ] >>
    /\ compared = NotCompared

\* ---- configuring, creating and destroying the swapchain
SetupIdle ==
    /\ pc = "init"
    /\ window = [ width |-> 1, height |-> 1 ]
    /\ stale = "ok"
    /\ resizes = 0
    /\ creates = 0
    /\ next_handle = 1
    /\ swapchain = ZeroSwapchain
    /\ rendering = ZeroRendering
    /\ frame = ZeroFrame
    /\ inflight = << >>
    /\ present_ood = 0
    /\ last_present = "none"
    /\ cfg_args = [ caps_ok |-> TRUE, image_count |-> 0, render_pass_index |-> 0 ]

\* the rest of the program at rest while one function is checked on its own
OtherIdle ==
    /\ TraceInit
    /\ SetupIdle
    /\ caps = [ minImageCount |-> 2, maxImageCount |-> MaxImages, minExtent |-> 1,
                maxExtent |-> MaxDim, use_sentinel |-> FALSE ]
    /\ memory_types = << >>
    /\ MemIdle
    /\ GpuIdle
    /\ call = NoCall
    /\ slots = NoSlots
    /\ config = ZeroConfig

InitSwapchain ==
    /\ TraceInit
    /\ caps \in SurfaceCaps
    /\ SetupIdle
    /\ memory_types = << >>
    /\ MemIdle
    /\ GpuIdle
    /\ AuxIdle

NextSwapchain ==
    \/ \E caps_ok \in BOOLEAN, image_count \in 0 .. (MaxImages + 1),
          render_pass_index \in 0 .. NumRenderPasses :
            ConfigureSwapchain(caps_ok, image_count, render_pass_index)
    \/ \E o \in CreateOutcomes(swapchain.image_count) : AppCreateSwapchain(o)
    \/ AppDestroySwapchain
    \/ \E o \in RenderingOutcomes : CreateRenderingState(o)
    \/ ClearError

SpecSwapchain == InitSwapchain /\ [][NextSwapchain]_vars

\* ---- vulkano_init, on every configuration
Configs ==
    [ surface_creation : BOOLEAN, query_size : BOOLEAN,
      render_pass_count : { 0, NumRenderPasses },
      swapchain_image_count : 0 .. (MaxImages + 1),
      swapchain_render_pass_index : 0 .. NumRenderPasses ]

InitInit ==
    /\ TraceInit
    /\ caps \in SurfaceCaps
    /\ pc = "start"
    /\ window = [ width |-> 1, height |-> 1 ]
    /\ stale = "ok"
    /\ resizes = 0
    /\ creates = 0
    /\ next_handle = 1
    /\ swapchain = ZeroSwapchain
    /\ rendering = ZeroRendering
    /\ frame = ZeroFrame
    /\ inflight = << >>
    /\ present_ood = 0
    /\ last_present = "none"
    /\ cfg_args = [ caps_ok |-> TRUE, image_count |-> 0, render_pass_index |-> 0 ]
    /\ memory_types = << >>
    /\ MemIdle
    /\ GpuIdle
    /\ call = NoCall
    /\ slots = NoSlots
    /\ config \in Configs
    /\ PureIdle

NextInit ==
    \E early \in InitEarlySteps, ndebug \in BOOLEAN, caps_ok \in BOOLEAN,
       o \in CreateOutcomes(config.swapchain_image_count), ro \in RenderingOutcomes :
         VulkanoInit(early, ndebug, caps_ok, o, ro)

SpecInit == InitInit /\ [][NextInit]_vars

\* ---- the render loop, from the state vulkano_init leaves: swapchain
\* configured and created, rendering state created
NoFailure == [ at |-> "none", i |-> 0 ]

InitFrame ==
    /\ TraceInit
    /\ caps \in SurfaceCaps
    /\ window = [ width |-> 1, height |-> 1 ]
    /\ swapchain =
         CreateSwapchain(
             ConfigureSwapchainState(ZeroSwapchain, "OK", caps.minImageCount, 0),
             NoFailure, 1, CurrentExtent, window, caps).swapchain
    /\ rendering =
         CreateRenderingStateState(
             ZeroRendering, [ slot |-> VULKANO_CONCURRENT_FRAMES, step |-> "none" ])
    /\ pc = "idle"
    /\ stale = "ok"
    /\ resizes = 0
    /\ creates = 1
    /\ next_handle = 2
    /\ frame = ZeroFrame
    /\ inflight = << >>
    /\ present_ood = 0
    /\ last_present = "none"
    /\ cfg_args = [ caps_ok |-> TRUE, image_count |-> caps.minImageCount,
                    render_pass_index |-> 0 ]
    /\ memory_types = << >>
    /\ MemIdle
    /\ GpuIdle
    /\ AuxIdle

NextFrame ==
    \/ \E result \in WaitForFencesResults("signaled")
                          \cup WaitForFencesResults("unsignaled"),
          reset \in { "ok", "fence", "command_buffer" } :
            BeginFrameWait(result, reset)
    \/ \E result \in AcquireResults(swapchain, stale),
          o \in CreateOutcomes(swapchain.image_count), semaphore_ok \in BOOLEAN :
            BeginFrameRebuild(result, o, semaphore_ok)
    \/ \E result \in AcquireResults(swapchain, stale), index \in 1 .. MaxImages,
          begin_ok \in BOOLEAN :
            BeginFrameAcquire(result, index, begin_ok)
    \/ \E end_ok \in BOOLEAN, submit_result \in QueueSubmitResults,
          present_result \in PresentResults(swapchain, stale) :
            SubmitFrame(end_ok, submit_result, present_result)
    \/ GpuComplete
    \/ \E size \in Extents, st \in { "ok", "suboptimal", "out_of_date" } :
            Resize(size, st)
    \/ RetryAfterTimeout

SpecFrame == InitFrame /\ [][NextFrame]_vars

\* ---- the render loop on a surface that may stay suboptimal.  Inside
\* vulkano_begin_frame control moves on whenever a driver call returns: a pass
\* through the acquire_image label that can be made is made.
BeginFramePass ==
    \/ \E result \in AcquireResults(swapchain, stale),
          o \in CreateOutcomes(swapchain.image_count), semaphore_ok \in BOOLEAN :
            BeginFrameRebuild(result, o, semaphore_ok)
    \/ \E result \in AcquireResults(swapchain, stale), index \in 1 .. MaxImages,
          begin_ok \in BOOLEAN :
            BeginFrameAcquire(result, index, begin_ok)

NextRetry ==
    \/ NextFrame
    \/ SurfaceStaysSuboptimal

SpecRetry == InitFrame /\ [][NextRetry]_vars /\ WF_vars(BeginFramePass)

\* ---- buffers and memory
\* VkMemoryType.propertyFlags of the kinds of memory a device offers
MemoryTypeFlags ==
    { { "DEVICE_LOCAL" }, { "HOST_VISIBLE" }, { "HOST_VISIBLE", "HOST_COHERENT" },
      { "DEVICE_LOCAL", "HOST_VISIBLE", "HOST_COHERENT" } }

MemoryTypeTables ==
    UNION { [ 1 .. n -> MemoryTypeFlags ] : n \in 1 .. MaxTypes }

\* the tables of a discrete GPU, of one whose host memory is not coherent, and
\* of an integrated GPU
DeviceMemoryTables ==
    { << { "DEVICE_LOCAL" }, { "HOST_VISIBLE", "HOST_COHERENT" } >>,
      << { "DEVICE_LOCAL" }, { "HOST_VISIBLE" } >>,
      << { "DEVICE_LOCAL", "HOST_VISIBLE", "HOST_COHERENT" } >> }

MemInit(tables) ==
    /\ TraceInit
    /\ SetupIdle
    /\ caps = [ minImageCount |-> 2, maxImageCount |-> MaxImages, minExtent |-> 1,
                maxExtent |-> MaxDim, use_sentinel |-> FALSE ]
    /\ memory_types \in tables
    /\ MemIdle
    /\ GpuIdle
    /\ AuxIdle

CreateBufferCall ==
    \E usage \in BufferUsages, required \in SUBSET PropertyFlags,
       o \in CreateBufferOutcomes(Len(memory_types)) :
         MemCreateBuffer(MaxCapacity, usage, required, o)

\* a chain of buffer calls on one error record
InitMem == MemInit(DeviceMemoryTables)

NextMem ==
    \/ CreateBufferCall
    \/ \E length \in 1 .. (MaxCapacity + 1), o \in CopyOutcomes(Len(memory_types)) :
            MemCopyToBuffer(length, o)
    \/ MemDestroyBuffer
    \/ MemClearError

SpecMem == InitMem /\ [][NextMem]_vars

\* buffer creation on every memory-type table
InitSelect == MemInit(MemoryTypeTables)

NextSelect ==
    \/ CreateBufferCall
    \/ MemDestroyBuffer

SpecSelect == InitSelect /\ [][NextSelect]_vars

\* ---- the slot indices, in every build
InitSlots ==
    /\ TraceInit
    /\ SetupIdle
    /\ caps = [ minImageCount |-> 2, maxImageCount |-> MaxImages, minExtent |-> 1,
                maxExtent |-> MaxDim, use_sentinel |-> FALSE ]
    /\ memory_types = << >>
    /\ MemIdle
    /\ GpuIdle
    /\ call = NoCall
    /\ config = ZeroConfig
    /\ PureIdle
    /\ slots \in [ concurrent_frames : 1 .. MaxSlots, frame_count : { 0 },
                    begin : { 0 }, submit : { 0 } ]

NextSlots == FrameSlots

SpecSlots == InitSlots /\ [][NextSlots]_vars

\* ---- the extent selection of vulkano_create_swapchain, on every surface
\* window sizes the callback can report, beyond the surface's limits too
WindowSizes == [ width : 0 .. (MaxDim + 1), height : 0 .. (MaxDim + 1) ]

\* VkSurfaceCapabilitiesKHR: the current extent is the sentinel or lies
\* within the limits, or is (0, 0) for a minimised window
ExtentCapabilities ==
    { c \in [ currentExtent : { Sentinel } \cup [ width : 0 .. MaxDim, height : 0 .. MaxDim ],
              minImageExtent : [ width : 1 .. MaxDim, height : 1 .. MaxDim ],
              maxImageExtent : [ width : 1 .. MaxDim, height : 1 .. MaxDim ] ] :
        /\ c.minImageExtent.width <= c.maxImageExtent.width
        /\ c.minImageExtent.height <= c.maxImageExtent.height
        /\ \/ IsSentinel(c.currentExtent)
           \/ c.currentExtent = [ width |-> 0, height |-> 0 ]
           \/ /\ c.currentExtent.width \in c.minImageExtent.width .. c.maxImageExtent.width
              /\ c.currentExtent.height \in c.minImageExtent.height .. c.maxImageExtent.height }

InitExtent ==
    /\ TraceInit
    /\ SetupIdle
    /\ caps = [ minImageCount |-> 2, maxImageCount |-> MaxImages, minExtent |-> 1,
                maxExtent |-> MaxDim, use_sentinel |-> FALSE ]
    /\ memory_types = << >>
    /\ MemIdle
    /\ GpuIdle
    /\ call = NoCall
    /\ slots = NoSlots
    /\ config = ZeroConfig
    /\ extent_query \in
         [ capabilities : ExtentCapabilities, size : WindowSizes,
           extent : { NoExtentQuery.extent }, queried : { 0 }, done : { FALSE } ]
    /\ PureIdleBut("extent_query")

\* vulkano_create_swapchain from the capability query to the assignment of
\* vk->swapchain.extent
SelectExtent ==
    /\ ~extent_query.done
    /\ LET r == SelectSwapchainExtent(extent_query.capabilities, extent_query.size)
       IN  extent_query' = [ extent_query EXCEPT !.extent = r.extent,
                                                 !.queried = r.queried,
                                                 !.done = TRUE ]
    /\ Trace("create_swapchain", "OK", 1, 0, 0)
    /\ UNCHANGED << error_code, frame_vars, mem_vars, gpu_vars, call, slots, config,
                    released, gpu_select, instance_call, merged,
                    boot, single_use, late_vars >>

NextExtent == SelectExtent

SpecExtent == InitExtent /\ [][NextExtent]_vars

\* ---- vulkano_select_gpu, on every system of up to MaxGpus devices
\* the device extensions vulkano_init requires
RequiredGpuExtensions == { "VK_KHR_swapchain" }

\* a device's queue families, by what each supports
QueueFamilyLists ==
    { << >>, << "graphics", "present" >>, << "graphics", "both" >>, << "both" >> }

\* a physical device: its place in the order of the configured comparator,
\* the extensions it reports, its queue families, and whether the driver
\* answers the surface queries (capabilities, present modes, formats) for it
PhysicalDevices ==
    [ rank : 0 .. 1, extensions : SUBSET RequiredGpuExtensions,
      families : QueueFamilyLists, surface_ok : BOOLEAN ]

\* sequences of up to n physical devices
RECURSIVE DeviceLists(_)
DeviceLists(n) ==
    IF n = 0 THEN { << >> }
    ELSE DeviceLists(n - 1)
         \cup { Append(l, d) : l \in { x \in DeviceLists(n - 1) : Len(x) = n - 1 },
                               d \in PhysicalDevices }

\* vulkano_gpu_supports_extensions
GpuSupportsExtensions(gpu, extensions) == extensions \subseteq gpu.extensions

\* confirm_gpu_selection
ConfirmGpuSelection(gpu, extensions) ==
    /\ GpuSupportsExtensions(gpu, extensions)
    /\ \E i \in DOMAIN gpu.families : gpu.families[i] = "both"

\* the orders qsort can leave the devices in: worst to best by the comparator,
\* devices that compare equal in any order
SortedOrders(devices) ==
    { p \in [ DOMAIN devices -> DOMAIN devices ] :
        /\ \A i, j \in DOMAIN devices : i # j => p[i] # p[j]
        /\ \A i, j \in DOMAIN devices :
              i < j => devices[p[i]].rank <= devices[p[j]].rank }

\* the scan from best to worst, at position k of the sorted order
RECURSIVE SelectGpuScan(_, _, _, _)
SelectGpuScan(devices, order, extensions, k) ==
    IF k = 0
    THEN [ handle |-> order[1], code |-> "NO_SUITABLE_GPU_AVAILABLE" ]
    ELSE LET gpu == devices[order[k]]
         IN  IF ~gpu.surface_ok
             THEN [ handle |-> order[k], code |-> "FAILED_ENUMERATION" ]
             ELSE IF ConfirmGpuSelection(gpu, extensions)
             THEN [ handle |-> order[k], code |-> "OK" ]
             ELSE SelectGpuScan(devices, order, extensions, k - 1)

\* vulkano_select_gpu: vk->gpu.handle (an index into devices, 0: unset) and
\* the error code
SelectGpuResult(devices, enumerate, order, extensions) ==
    IF enumerate = "count" THEN [ handle |-> 0, code |-> "FAILED_ENUMERATION" ]
    ELSE IF Len(devices) = 0 THEN [ handle |-> 0, code |-> "NO_GPU_AVAILABLE" ]
    ELSE IF enumerate = "devices" THEN [ handle |-> 0, code |-> "FAILED_ENUMERATION" ]
    ELSE SelectGpuScan(devices, order, extensions, Len(devices))

InitSelectGpu ==
    /\ OtherIdle
    /\ PureIdleBut("gpu_select")
    /\ gpu_select \in
         [ devices : DeviceLists(MaxGpus), enumerate : { "ok", "count", "devices" },
           handle : { 0 }, code : { "OK" }, done : { FALSE } ]

SelectGpu ==
    /\ ~gpu_select.done
    /\ \E order \in SortedOrders(gpu_select.devices) :
         LET r == SelectGpuResult(gpu_select.devices, gpu_select.enumerate, order,
                                  RequiredGpuExtensions)
         IN  /\ gpu_select' = [ gpu_select EXCEPT !.handle = r.handle,
                                                  !.code = r.code,
                                                  !.done = TRUE ]
             /\ error_code' = Raise(error_code, r.code)
             /\ Trace("select_gpu", r.code, 2, 0, 0)
    /\ UNCHANGED << frame_vars, mem_vars, gpu_vars, call, slots, config,
                    extent_query, released, instance_call, merged,
                    boot, single_use, late_vars >>

NextSelectGpu == SelectGpu

SpecSelectGpu == InitSelectGpu /\ [][NextSelectGpu]_vars

\* ---- vulkano_create_instance, on every driver and every request
Names == 1 .. MaxNames

\* qsort with strcmp on names: the names of a set in ascending order
RECURSIVE SortedNames(_)
SortedNames(set) ==
    IF set = {} THEN << >>
    ELSE LET least == CHOOSE n \in set : \A m \in set : n <= m
         IN  << least >> \o SortedNames(set \ { least })

\* strcmp
NameCompare(a, b) == IF a < b THEN -1 ELSE IF a > b THEN 1 ELSE 0

\* bsearch over `count` elements that lie `stride` array elements apart,
\* between virtual indices lo and hi: an element beyond the end of the array
\* is memory the array does not own, and `beyond` is what comparing with it
\* yields
RECURSIVE Bsearch(_, _, _, _, _, _, _)
Bsearch(key, sorted, count, stride, beyond, lo, hi) ==
    IF lo >= hi THEN FALSE
    ELSE LET mid == (lo + hi) \div 2
             at == mid * stride + 1
             cmp == IF at <= Len(sorted) THEN NameCompare(key, sorted[at])
                    ELSE beyond[mid]
         IN  IF cmp = 0 THEN TRUE
             ELSE IF cmp < 0
             THEN Bsearch(key, sorted, count, stride, beyond, lo, mid)
             ELSE Bsearch(key, sorted, count, stride, beyond, mid + 1, hi)

\* what the search for `key` can answer, over everything the memory beyond
\* the array can hold
SearchOutcomes(key, set, stride) ==
    LET sorted == SortedNames(set)
        count == Len(sorted)
    IN  { Bsearch(key, sorted, count, stride, beyond, 0, count) :
            beyond \in [ 0 .. (count - 1) -> { -1, 0, 1 } ] }

\* the results of the driver calls vulkano_create_instance makes: the one
\* that fails, if any
InstanceDriverResults == { "ok", "enumerate_layers", "enumerate_extensions", "create" }

\* vulkano_create_instance: `layer_found` and `extension_found` are the
\* answers of the searches
CreateInstanceResult(c, layer_found, extension_found) ==
    IF c.driver = "enumerate_layers"
    THEN [ code |-> "FAILED_ENUMERATION", created |-> FALSE ]
    ELSE IF \E l \in c.layers : ~layer_found[l]
    THEN [ code |-> "UNSUPPORTED_VALIDATION_LAYER", created |-> FALSE ]
    ELSE IF c.driver = "enumerate_extensions"
    THEN [ code |-> "FAILED_ENUMERATION", created |-> FALSE ]
    ELSE IF \E e \in c.extensions : ~extension_found[e]
    THEN [ code |-> "UNSUPPORTED_INSTANCE_EXTENSION", created |-> FALSE ]
    \* vkCreateInstance: VK_ERROR_LAYER_NOT_PRESENT, VK_ERROR_EXTENSION_NOT_PRESENT
    \* or any other failure
    ELSE IF \/ ~(c.layers \subseteq c.available_layers)
            \/ ~(c.extensions \subseteq c.supported_extensions)
            \/ c.driver = "create"
    THEN [ code |-> "INSTANCE_CREATION_FAILED", created |-> FALSE ]
    ELSE [ code |-> "OK", created |-> TRUE ]

InitInstance ==
    /\ OtherIdle
    /\ PureIdleBut("instance_call")
    /\ instance_call \in
         [ available_layers : SUBSET Names, supported_extensions : SUBSET Names,
           layers : { l \in SUBSET Names : Cardinality(l) <= 1 },
           extensions : SUBSET Names, driver : InstanceDriverResults,
           code : { "OK" }, created : { FALSE }, done : { FALSE } ]

CreateInstance ==
    /\ ~instance_call.done
    /\ \E layer_found \in [ instance_call.layers -> BOOLEAN ],
          extension_found \in [ instance_call.extensions -> BOOLEAN ] :
         /\ \A l \in instance_call.layers :
              layer_found[l] \in SearchOutcomes(l, instance_call.available_layers,
                                                LayerSearchStride)
         /\ \A e \in instance_call.extensions :
              extension_found[e] \in SearchOutcomes(e, instance_call.supported_extensions,
                                                    ExtensionSearchStride)
         /\ LET r == CreateInstanceResult(instance_call, layer_found, extension_found)
            IN  /\ instance_call' = [ instance_call EXCEPT !.code = r.code,
                                                           !.created = r.created,
                                                           !.done = TRUE ]
                /\ error_code' = Raise(error_code, r.code)
                /\ Trace("create_instance", r.code, 1, IF r.created THEN 1 ELSE 0, 0)
    /\ UNCHANGED << frame_vars, mem_vars, gpu_vars, call, slots, config,
                    extent_query, released, gpu_select, merged,
                    boot, single_use, late_vars >>

NextInstance == CreateInstance

SpecInstance == InitInstance /\ [][NextInstance]_vars

\* ---- combine_string_arrays_unique, on every pair of lists
\* lists of up to n names
RECURSIVE NameLists(_)
NameLists(n) ==
    IF n = 0 THEN { << >> }
    ELSE NameLists(n - 1)
         \cup { Append(l, x) : l \in { y \in NameLists(n - 1) : Len(y) = n - 1 },
                               x \in Names }

\* bsearch(array2.data[i], array1.data, array1.count, sizeof(char*), strcmp):
\* strcmp is handed the name and the address of an element of array1.data and
\* reads the pointer stored there as if it were the characters of a string.
\* The bytes of an address are not a layer or extension name, so the
\* comparison never yields 0; `signs` is what it yields at each probe
RECURSIVE BsearchPointers(_, _, _, _)
BsearchPointers(count, signs, lo, hi) ==
    IF lo >= hi THEN FALSE
    ELSE LET mid == (lo + hi) \div 2
             cmp == signs[mid]
         IN  IF cmp = 0 THEN TRUE
             ELSE IF cmp < 0 THEN BsearchPointers(count, signs, lo, mid)
             ELSE BsearchPointers(count, signs, mid + 1, hi)

\* what the search of array1 can answer for a name of array2
PointerSearchOutcomes(array1) ==
    { BsearchPointers(Len(array1), signs, 0, Len(array1)) :
        signs \in [ 0 .. (Len(array1) - 1) -> { -1, 1 } ] }

\* the loop over array2 from element i on: the elements appended to combined
RECURSIVE AppendUnfound(_, _, _)
AppendUnfound(array2, found, i) ==
    IF i > Len(array2) THEN << >>
    ELSE (IF found[i] THEN << >> ELSE << array2[i] >>)
         \o AppendUnfound(array2, found, i + 1)

\* combine_string_arrays_unique (a list of no elements has a NULL data
\* pointer); found[i] is the answer of the search for array2[i] in array1
CombineStringArraysUnique(array1, array2, malloc_ok, found) ==
    IF Len(array1) + Len(array2) = 0 THEN [ combined |-> << >>, code |-> "OK" ]
    ELSE IF ~malloc_ok THEN [ combined |-> << >>, code |-> "OUT_OF_MEMORY" ]
    ELSE [ combined |->
             array1 \o AppendUnfound(array2,
                                     [ i \in DOMAIN array2 |->
                                         Len(array1) > 0 /\ found[i] ], 1),
           code |-> "OK" ]

InitMerge ==
    /\ OtherIdle
    /\ PureIdleBut("merged")
    /\ merged \in
         [ array1 : NameLists(MaxListLen), array2 : NameLists(MaxListLen),
           malloc_ok : BOOLEAN, combined : { << >> }, code : { "OK" },
           done : { FALSE } ]

CombineStringArrays ==
    /\ ~merged.done
    /\ \E found \in [ DOMAIN merged.array2 -> BOOLEAN ] :
         /\ \A i \in DOMAIN merged.array2 :
              Len(merged.array1) > 0 => found[i] \in PointerSearchOutcomes(merged.array1)
         /\ \A i \in DOMAIN merged.array2 : Len(merged.array1) = 0 => ~found[i]
         /\ LET r == CombineStringArraysUnique(merged.array1, merged.array2,
                                               merged.malloc_ok, found)
            IN  /\ merged' = [ merged EXCEPT !.combined = r.combined,
                                             !.code = r.code,
                                             !.done = TRUE ]
                /\ error_code' = Raise(error_code, r.code)
                /\ Trace("combine_string_arrays_unique", r.code, 0, 0, 0)
    /\ UNCHANGED << frame_vars, mem_vars, gpu_vars, call, slots, config,
                    extent_query, released, gpu_select, instance_call,
                    boot, single_use, late_vars >>

NextMerge == CombineStringArrays

SpecMerge == InitMerge /\ [][NextMerge]_vars

\* ---- vulkano_init and vulkano_destroy, driver object by driver object
\* the handle arrays of struct vulkano_resources, in the order in which
\* vulkano_create_resources fills and vulkano_destroy_resources empties them
ArrayKinds ==
    << "render_pass", "descriptor_set_layout", "pipeline_layout",
       "graphics_pipeline", "descriptor_pool" >>

KindSet == { ArrayKinds[i] : i \in DOMAIN ArrayKinds }

\* the arrays that malloc allocates (graphics_pipelines comes from calloc)
MallocKinds == KindSet \ { "graphics_pipeline" }

\* the bootstrap steps of vulkano_init in the order of the code, the steps of
\* vulkano_create_resources spelled out
StageOrder ==
    << "instance", "surface", "select_gpu", "device", "command_pool" >>
    \o ArrayKinds \o << "configure", "swapchain", "rendering" >>

StageIndex(stage) == CHOOSE i \in DOMAIN StageOrder : StageOrder[i] = stage

\* struct vulkano_config: the counts of its arrays and the swapchain image
\* count (the most the surface allows), for configurations that pass
\* vulkano_configure_swapchain's and vulkano_process_pipeline_config's index
\* checks; every pipeline has one shader
BootConfigs ==
    { c \in [ count : [ KindSet -> 0 .. MaxResources ],
              swapchain_image_count : { MaxImages } ] :
        /\ c.count["render_pass"] >= 1
        /\ c.count["descriptor_set_layout"] <= 1
        /\ c.count["pipeline_layout"] <= 1
        /\ c.count["descriptor_pool"] <= 1
        /\ c.count["graphics_pipeline"] > 0 => c.count["pipeline_layout"] > 0 }

\* where the driver, a callback or malloc makes vulkano_init fail ("none":
\* nowhere); `made` are the pipelines vkCreateGraphicsPipelines did create
\* when it returned an error for the batch
BootFailures(cfg) ==
    { [ step |-> s, kind |-> "none", index |-> 0, made |-> {} ] :
        s \in { "none", "instance", "surface", "select_gpu", "device",
                "command_pool", "configure" } }
    \cup { [ step |-> "malloc", kind |-> k, index |-> 0, made |-> {} ] :
            k \in { k \in KindSet : cfg.count[k] > 0 \/ k = "descriptor_pool" } }
    \cup UNION { { [ step |-> "create", kind |-> k, index |-> i, made |-> {} ] :
                    i \in 1 .. cfg.count[k] } : k \in MallocKinds }
    \cup { [ step |-> "shader_module", kind |-> "graphics_pipeline", index |-> i,
             made |-> {} ] : i \in 1 .. cfg.count["graphics_pipeline"] }
    \cup { [ step |-> "create_pipelines", kind |-> "graphics_pipeline", index |-> 0,
             made |-> m ] :
            m \in (SUBSET (1 .. cfg.count["graphics_pipeline"]))
                  \ { 1 .. cfg.count["graphics_pipeline"] } }
    \cup { [ step |-> "swapchain", kind |-> o.at, index |-> o.i, made |-> {} ] :
            o \in { o \in CreateOutcomes(cfg.swapchain_image_count) : o.at # "none" } }
    \cup { [ step |-> "rendering", kind |-> ro.step, index |-> ro.slot, made |-> {} ] :
            ro \in { ro \in RenderingOutcomes : ro.step # "none" } }

\* the bootstrap step in which failure f happens
FailStage(f) ==
    IF f.step \in { "malloc", "create", "shader_module", "create_pipelines" }
    THEN f.kind ELSE f.step

\* one slot of struct vulkano_rendering_state
ZeroSync ==
    [ command_buffer |-> 0, image_ready |-> 0, rendering_complete |-> 0,
      frame_complete |-> 0 ]

\* struct vulkano vk = {0}
ZeroContext ==
    [ instance |-> 0, surface |-> 0, device |-> 0, command_pool |-> 0,
      arrays |-> [ k \in KindSet |-> NullArray ],
      shader_modules |-> NullArray,
      swapchain |-> ZeroSwapchain,
      sync |-> [ i \in Slots |-> ZeroSync ] ]

Object(kind, index) == [ kind |-> kind, index |-> index ]

\* the driver objects whose handles an array holds
ObjectsIn(kind, s) == { Object(kind, i) : i \in { i \in DOMAIN s : IsLive(s[i]) } }

\* the surface the swapchain of vulkano_init is created on
BootExtent == [ width |-> 1, height |-> 1 ]
BootCaps == [ minExtent |-> 1, maxExtent |-> MaxDim ]

\* the swapchain state where vulkano_create_swapchain stops at failure f,
\* before its own cleanup
BootSwapchainReached(sc, f) ==
    CreateSwapchainReached(
        sc, IF f.step = "swapchain" THEN [ at |-> f.kind, i |-> f.index ]
            ELSE [ at |-> "none", i |-> 0 ],
        1, BootExtent, BootExtent, BootCaps)

\* the rendering state where vulkano_create_rendering_state stops at ro
CreateRenderingSync(ro) ==
    [ i \in Slots |->
        LET done(rank) ==
                IF i < ro.slot \/ (i = ro.slot /\ RenderingCreated(ro) - 4 * i >= rank)
                THEN 1 ELSE 0
        IN  [ command_buffer |-> done(1), image_ready |-> done(2),
              rendering_complete |-> done(3), frame_complete |-> done(4) ] ]

SyncObjects(sync) ==
    UNION { { Object(field, i) :
                field \in { field \in { "command_buffer", "image_ready",
                                        "rendering_complete", "frame_complete" } :
                              sync[i][field] # 0 } } : i \in Slots }

\* the array entries that vulkano_init leaves unwritten at failure f
UnwrittenEntries(cfg, f) ==
    CASE f.step = "create" ->
            { Object(f.kind, i) : i \in f.index .. cfg.count[f.kind] }
      [] f.step = "swapchain" ->
            LET configured ==
                    ConfigureSwapchainState(ZeroSwapchain, "OK",
                                            cfg.swapchain_image_count, 0)
                reached == BootSwapchainReached(configured, f)
            IN  { Object("image_view", i) : i \in GarbageIndices(reached.image_views) }
                \cup { Object("framebuffer", i) :
                         i \in GarbageIndices(reached.framebuffers) }
      [] OTHER -> {}

IndicesOf(kind, entries) == { e.index : e \in { e \in entries : e.kind = kind } }

\* ----------------------------------------------------------- vulkano_destroy
\* the driver calls of vulkano_destroy_rendering_state, slot by slot
RECURSIVE DestroyRenderingStateCalls(_, _)
DestroyRenderingStateCalls(sync, i) ==
    IF i >= VULKANO_CONCURRENT_FRAMES THEN << >>
    ELSE (IF sync[i].image_ready # 0
          THEN << [ kind |-> "image_ready", index |-> i, handle |-> 1 ] >> ELSE << >>)
         \o (IF sync[i].rendering_complete # 0
             THEN << [ kind |-> "rendering_complete", index |-> i, handle |-> 1 ] >>
             ELSE << >>)
         \o (IF sync[i].frame_complete # 0
             THEN << [ kind |-> "frame_complete", index |-> i, handle |-> 1 ] >>
             ELSE << >>)
         \o DestroyRenderingStateCalls(sync, i + 1)

\* the loop over vk->resources.graphics_pipelines: the shader module of a
\* pipeline, then its handle
RECURSIVE DestroyPipelinesCalls(_, _, _)
DestroyPipelinesCalls(modules, handles, j) ==
    IF j > Len(handles) THEN << >>
    ELSE (IF modules[j] # 0
          THEN << [ kind |-> "shader_module", index |-> j, handle |-> modules[j] ] >>
          ELSE << >>)
         \o (IF handles[j] # 0
             THEN << [ kind |-> "graphics_pipeline", index |-> j,
                       handle |-> handles[j] ] >>
             ELSE << >>)
         \o DestroyPipelinesCalls(modules, handles, j + 1)

\* the driver calls of vulkano_destroy_resources; `nonzero` are the unwritten
\* entries that read as non-null
DestroyResourcesCalls(vk, nonzero) ==
    DestroyLoop("render_pass", vk.arrays["render_pass"],
                IndicesOf("render_pass", nonzero), 1)
    \o DestroyLoop("descriptor_set_layout", vk.arrays["descriptor_set_layout"],
                   IndicesOf("descriptor_set_layout", nonzero), 1)
    \o DestroyLoop("pipeline_layout", vk.arrays["pipeline_layout"],
                   IndicesOf("pipeline_layout", nonzero), 1)
    \o DestroyPipelinesCalls(vk.shader_modules, vk.arrays["graphics_pipeline"], 1)
    \o DestroyLoop("descriptor_pool", vk.arrays["descriptor_pool"],
                   IndicesOf("descriptor_pool", nonzero), 1)
    \o (IF vk.command_pool # 0
        THEN << [ kind |-> "command_pool", index |-> 0, handle |-> 1 ] >> ELSE << >>)

\* a vulkano_destroy that destroys the device before what was created from it
VulkanoDestroyCallsDeviceFirst(vk, nonzero) ==
    (IF vk.device # 0
     THEN << [ kind |-> "wait_idle", index |-> 0, handle |-> 1 ],
             [ kind |-> "device", index |-> 0, handle |-> 1 ] >> ELSE << >>)
    \o DestroySwapchainOrder(vk.swapchain, IndicesOf("image_view", nonzero),
                             IndicesOf("framebuffer", nonzero))
    \o DestroyRenderingStateCalls(vk.sync, 0)
    \o DestroyResourcesCalls(vk, nonzero)
    \o (IF vk.surface # 0
        THEN << [ kind |-> "surface", index |-> 0, handle |-> 1 ] >> ELSE << >>)
    \o (IF vk.instance # 0
        THEN << [ kind |-> "instance", index |-> 0, handle |-> 1 ] >> ELSE << >>)

\* the driver calls of vulkano_destroy, in order
VulkanoDestroyCalls(vk, nonzero) ==
    (IF vk.device # 0
     THEN << [ kind |-> "wait_idle", index |-> 0, handle |-> 1 ] >> ELSE << >>)
    \o DestroySwapchainOrder(vk.swapchain, IndicesOf("image_view", nonzero),
                             IndicesOf("framebuffer", nonzero))
    \o DestroyRenderingStateCalls(vk.sync, 0)
    \o DestroyResourcesCalls(vk, nonzero)
    \o (IF vk.device # 0
        THEN << [ kind |-> "device", index |-> 0, handle |-> 1 ] >> ELSE << >>)
    \o (IF vk.surface # 0
        THEN << [ kind |-> "surface", index |-> 0, handle |-> 1 ] >> ELSE << >>)
    \o (IF vk.instance # 0
        THEN << [ kind |-> "instance", index |-> 0, handle |-> 1 ] >> ELSE << >>)

\* *vk = (struct vulkano){0}
VulkanoDestroyState(vk) == ZeroContext

\* -------------------------------------------------------------- vulkano_init
\* the error code a bootstrap step sets at failure f
BootError(f) ==
    CASE f.step = "instance" -> "INSTANCE_CREATION_FAILED"
      [] f.step = "surface" -> "SURFACE_CREATION_FAILED"
      [] f.step = "select_gpu" -> "NO_SUITABLE_GPU_AVAILABLE"
      [] f.step = "device" -> "DEVICE_CREATION_FAILED"
      [] f.step \in { "command_pool", "malloc" } -> "OUT_OF_MEMORY"
      [] f.step = "create" ->
            (IF f.kind = "descriptor_pool" THEN "OUT_OF_MEMORY"
             ELSE "FAILED_RESOURCE_CREATION")
      [] f.step \in { "shader_module", "create_pipelines" } -> "FAILED_RESOURCE_CREATION"
      [] f.step = "configure" -> "FAILED_ENUMERATION"
      [] f.step = "swapchain" -> CreateSwapchainError([ at |-> f.kind, i |-> f.index ])
      [] f.step = "rendering" ->
            CreateRenderingStateError([ slot |-> f.index, step |-> f.kind ])
      [] OTHER -> "OK"

\* one array of vulkano_create_resources: what the struct holds afterwards and
\* the objects the driver created
CreateArray(st, kind, count, f, fails) ==
    IF count = 0 /\ kind # "descriptor_pool" THEN st
    ELSE IF fails /\ f.step = "malloc" THEN st
    ELSE IF kind = "graphics_pipeline"
    THEN LET modules ==
                 [ j \in 1 .. count |->
                     IF fails /\ f.step = "shader_module" /\ j >= f.index
                     THEN 0 ELSE 1 ]
             \* the handles are copied into the struct only after
             \* vkCreateGraphicsPipelines returned VK_SUCCESS
             handles == [ j \in 1 .. count |-> IF fails THEN 0 ELSE 1 ]
             made == IF ~fails THEN 1 .. count
                     ELSE IF f.step = "create_pipelines" THEN f.made ELSE {}
         IN  [ st EXCEPT
                 !.vk.shader_modules = modules,
                 !.vk.arrays["graphics_pipeline"] = handles,
                 !.created = @ \cup ObjectsIn("shader_module", modules)
                               \cup { Object("graphics_pipeline", j) : j \in made } ]
    ELSE LET filled == IF fails THEN f.index - 1 ELSE count
             array == PartialArray(count, filled, 1)
         IN  [ st EXCEPT !.vk.arrays[kind] = array,
                         !.created = @ \cup ObjectsIn(kind, array) ]

\* one bootstrap step on the state st = [vk, created, cleanup, steps, raised];
\* `nonzero` are the unwritten array entries that read as non-null
RunStage(stage, st, cfg, f, nonzero) ==
    LET fails == FailStage(f) = stage
        ran == [ st EXCEPT !.steps = Append(@, stage),
                           !.raised = IF fails THEN Append(@, BootError(f)) ELSE @ ]
        handle(field) ==
            IF fails THEN ran
            ELSE [ ran EXCEPT !.vk[field] = 1,
                              !.created = @ \cup { Object(field, 0) } ]
    IN  CASE stage \in { "instance", "surface", "device", "command_pool" } ->
                handle(stage)
          [] stage = "select_gpu" -> ran
          [] stage \in KindSet ->
                CreateArray(ran, stage, cfg.count[stage], f, fails)
          [] stage = "configure" ->
                IF fails THEN ran
                ELSE [ ran EXCEPT !.vk.swapchain =
                         ConfigureSwapchainState(ZeroSwapchain, "OK",
                                                 cfg.swapchain_image_count, 0) ]
          [] stage = "swapchain" ->
                LET reached == BootSwapchainReached(ran.vk.swapchain, f)
                    cleans == fails /\ CreateSwapchainCleansUp([ at |-> f.kind,
                                                                 i |-> f.index ])
                IN  [ ran EXCEPT
                        !.vk.swapchain = IF cleans THEN DestroySwapchainState(reached)
                                         ELSE reached,
                        !.created = @ \cup ObjectsIn("image_view", reached.image_views)
                                      \cup ObjectsIn("framebuffer", reached.framebuffers)
                                      \cup (IF reached.handle # 0
                                            THEN { Object("swapchain", 0) } ELSE {}),
                        !.cleanup =
                            IF cleans
                            THEN DestroySwapchainOrder(
                                     reached, IndicesOf("image_view", nonzero),
                                     IndicesOf("framebuffer", nonzero))
                            ELSE << >> ]
          [] OTHER ->
                LET sync == CreateRenderingSync(
                                IF fails THEN [ slot |-> f.index, step |-> f.kind ]
                                ELSE [ slot |-> VULKANO_CONCURRENT_FRAMES,
                                       step |-> "none" ])
                IN  [ ran EXCEPT !.vk.sync = sync,
                                 !.created = @ \cup SyncObjects(sync) ]

\* the steps of vulkano_init from the k-th on, each followed by
\* `if (error->code) goto cleanup;`
RECURSIVE BootstrapFrom(_, _, _, _, _)
BootstrapFrom(k, st, cfg, f, nonzero) ==
    IF k > Len(StageOrder) \/ st.raised # << >> THEN st
    ELSE BootstrapFrom(k + 1, RunStage(StageOrder[k], st, cfg, f, nonzero),
                       cfg, f, nonzero)

\* the whole of vulkano_init: the bootstrap steps, then the cleanup label
Bootstrap(cfg, f, nonzero) ==
    LET st == BootstrapFrom(1, [ vk |-> ZeroContext, created |-> {},
                                 cleanup |-> << >>, steps |-> << >>,
                                 raised |-> << >> ],
                            cfg, f, nonzero)
        failed == st.raised # << >>
    IN  [ steps |-> st.steps,
          raised |-> st.raised,
          created |-> st.created,
          cleanup |-> st.cleanup,
          destroy |-> IF failed THEN VulkanoDestroyCalls(st.vk, nonzero) ELSE << >>,
          vk |-> IF failed THEN VulkanoDestroyState(st.vk) ELSE st.vk ]

\* the application calls vulkano_init
BootInit(f, nonzero) ==
    /\ boot.phase = "start"
    /\ LET r == Bootstrap(boot.config, f, nonzero)
           code == IF r.raised = << >> THEN "OK" ELSE r.raised[Len(r.raised)]
       IN  /\ boot' = [ phase |-> IF code = "OK" THEN "initialised" ELSE "failed",
                        config |-> boot.config, failure |-> f, steps |-> r.steps,
                        raised |-> r.raised, created |-> r.created,
                        cleanup |-> r.cleanup, destroy |-> r.destroy, vk |-> r.vk,
                        previous |-> << >>, destroys |-> 0 ]
           /\ error_code' = Raise(error_code, code)
           /\ Trace("vulkano_init", code,
                    Cardinality(r.created) + Len(r.cleanup) + Len(r.destroy),
                    Cardinality(r.created), Len(r.cleanup) + Len(r.destroy))
    /\ UNCHANGED << frame_vars, mem_vars, gpu_vars, call, slots, config,
                    extent_query, released, gpu_select, instance_call, merged,
                    single_use, late_vars >>

\* the application calls vulkano_destroy on the context vulkano_init returned
BootDestroy ==
    /\ boot.phase \in { "initialised", "failed", "destroyed" }
    /\ LET calls == VulkanoDestroyCalls(boot.vk, {})
       IN  /\ boot' = [ boot EXCEPT !.phase = IF boot.phase = "destroyed"
                                               THEN "destroyed_again"
                                               ELSE "destroyed",
                                    !.previous = boot.destroy,
                                    !.destroy = calls,
                                    !.vk = VulkanoDestroyState(boot.vk),
                                    !.destroys = @ + 1 ]
           /\ Trace("vulkano_destroy", "OK", Len(calls), 0, Len(calls))
    /\ UNCHANGED << error_code, frame_vars, mem_vars, gpu_vars, call, slots, config,
                    extent_query, released, gpu_select, instance_call, merged,
                    single_use, late_vars >>

InitBoot ==
    /\ OtherIdle
    /\ PureIdleBut("boot")
    /\ boot \in { [ phase |-> "start", config |-> c ] : c \in BootConfigs }

NextBoot ==
    \/ \E f \in BootFailures(boot.config) :
         \E nonzero \in SUBSET UnwrittenEntries(boot.config, f) : BootInit(f, nonzero)
    \/ BootDestroy

SpecBoot == InitBoot /\ [][NextBoot]_vars

\* ---- vulkano_submit_single_use_command_buffer
\* the driver calls of the function before its cleanup label, in order
SingleUseSteps ==
    << "vkCreateFence", "vkEndCommandBuffer", "vkQueueSubmit", "vkWaitForFences" >>

\* what the driver can answer to each of them
SingleUseAnswers ==
    [ vkCreateFence : { "VK_SUCCESS", "VK_ERROR_OUT_OF_HOST_MEMORY",
                        "VK_ERROR_OUT_OF_DEVICE_MEMORY" },
      vkEndCommandBuffer : { "VK_SUCCESS", "VK_ERROR_OUT_OF_HOST_MEMORY",
                             "VK_ERROR_OUT_OF_DEVICE_MEMORY" },
      vkQueueSubmit : { "VK_SUCCESS", "VK_ERROR_OUT_OF_DEVICE_MEMORY",
                        "VK_ERROR_DEVICE_LOST" },
      vkWaitForFences : SingleUseSubmitResults ]

\* the calls from the k-th on, each followed by
\* `if (result != VK_SUCCESS) goto cleanup;`, and the result at the label
RECURSIVE SubmitSingleUseFrom(_, _)
SubmitSingleUseFrom(k, answers) ==
    IF k > Len(SingleUseSteps) THEN [ calls |-> << >>, result |-> "VK_SUCCESS" ]
    ELSE IF answers[SingleUseSteps[k]] # "VK_SUCCESS"
    THEN [ calls |-> << SingleUseSteps[k] >>, result |-> answers[SingleUseSteps[k]] ]
    ELSE LET rest == SubmitSingleUseFrom(k + 1, answers)
         IN  [ calls |-> << SingleUseSteps[k] >> \o rest.calls, result |-> rest.result ]

\* a submit that returns where a call fails and cleans up only at the end
SubmitSingleUseReturnsEarly(answers) ==
    LET run == SubmitSingleUseFrom(1, answers)
    IN  [ calls |-> run.calls
                    \o (IF run.result = "VK_SUCCESS"
                        THEN << "vkFreeCommandBuffers", "vkDestroyFence" >> ELSE << >>),
          fence |-> IF answers.vkCreateFence = "VK_SUCCESS" THEN 1 ELSE 0,
          code |-> SubmitSingleUseError(run.result) ]

\* the whole call: `fence` starts as VK_NULL_HANDLE and holds a handle once
\* vkCreateFence succeeded; the cleanup label frees the command buffer and
\* destroys the fence if there is one
SubmitSingleUse(answers) ==
    LET run == SubmitSingleUseFrom(1, answers)
        fence == IF answers.vkCreateFence = "VK_SUCCESS" THEN 1 ELSE 0
    IN  [ calls |-> run.calls \o << "vkFreeCommandBuffers" >>
                    \o (IF fence # 0 THEN << "vkDestroyFence" >> ELSE << >>),
          fence |-> fence,
          code |-> SubmitSingleUseError(run.result) ]

InitSingleUse ==
    /\ OtherIdle
    /\ PureIdleBut("single_use")
    /\ single_use \in { [ phase |-> "recorded", answers |-> a ] : a \in SingleUseAnswers }

\* the application submits the command buffer it has recorded
SubmitSingleUseCommandBuffer ==
    /\ single_use.phase = "recorded"
    /\ LET r == SubmitSingleUse(single_use.answers)
       IN  /\ single_use' = [ phase |-> "returned", answers |-> single_use.answers,
                              calls |-> r.calls, fence |-> r.fence, code |-> r.code ]
           /\ error_code' = Raise(error_code, r.code)
           /\ Trace("submit_single_use_command_buffer", r.code, Len(r.calls),
                    r.fence, 1 + r.fence)
    /\ UNCHANGED << frame_vars, mem_vars, gpu_vars, call, slots, config,
                    extent_query, released, gpu_select, instance_call, merged, boot,
                    late_vars >>

NextSingleUse == SubmitSingleUseCommandBuffer

SpecSingleUse == InitSingleUse /\ [][NextSingleUse]_vars

\* ---- buffer and image operations, driver call by driver call
\* the driver calls of one operation that can fail ("none": none does), one
\* failure per operation; select_memory_type fails when the device has no
\* memory type for the request
TransferFailPoints ==
    { "none", "vkCreateBuffer", "vkCreateImage", "select_memory_type",
      "vkAllocateMemory", "vkBindBufferMemory", "vkBindImageMemory",
      "vkAllocateCommandBuffers", "vkBeginCommandBuffer", "vkMapMemory",
      "vkFlushMappedMemoryRanges", "vkCreateFence", "vkEndCommandBuffer",
      "vkQueueSubmit", "vkWaitForFences" }

\* what the driver answers during one operation: the call that fails, what
\* vkWaitForFences returns when it is the one, and whether the memory type
\* found for a staging buffer is host coherent
TransferAnswers ==
    { a \in [ fail : TransferFailPoints, wait : SingleUseSubmitResults \ { "VK_SUCCESS" },
              coherent : BOOLEAN ] :
        a.fail # "vkWaitForFences" => a.wait = "VK_TIMEOUT" }

VkImageLayouts == { "UNDEFINED", "TRANSFER_DST_OPTIMAL", "SHADER_READ_ONLY_OPTIMAL" }

\* the operations and their arguments: the layout an image is in and the one
\* asked for, whether the destination buffer has VK_BUFFER_USAGE_TRANSFER_DST_BIT
TransferCalls ==
    [ op : { "create_buffer", "create_image", "copy_to_image" },
      layout : { "TRANSFER_DST_OPTIMAL" }, new_layout : { "TRANSFER_DST_OPTIMAL" },
      transfer_dst : { TRUE } ]
    \cup [ op : { "copy_to_buffer" }, layout : { "UNDEFINED" },
           new_layout : { "UNDEFINED" }, transfer_dst : BOOLEAN ]
    \cup [ op : { "image_change_layout" }, layout : VkImageLayouts,
           new_layout : VkImageLayouts, transfer_dst : { TRUE } ]

\* struct vulkano_buffer / struct vulkano_image as the operations see them
ZeroTransferBuffer == [ handle |-> 0, memory |-> 0 ]
ZeroImage == [ handle |-> 0, memory |-> 0, layout |-> "UNDEFINED" ]

\* an operation in progress: the error record, the driver calls made so far,
\* the driver objects alive, and the objects the GPU may still be using
TransferStart ==
    [ error |-> "OK", calls |-> << >>, live |-> {}, pending |-> {} ]

\* a driver call on object obj; ok: the driver returned VK_SUCCESS; pool: the
\* command pool named in the call (0: none); busy: the GPU may be using obj
DriverCall(t, fn, obj, ok, pool) ==
    [ t EXCEPT !.calls = Append(@, [ fn |-> fn, obj |-> obj, ok |-> ok, pool |-> pool,
                                     busy |-> obj \in t.pending ]) ]

\* a call that creates obj unless it is the one that fails
CreateCall(t, fn, obj, a, pool) ==
    IF a.fail = fn THEN DriverCall(t, fn, obj, FALSE, pool)
    ELSE [ DriverCall(t, fn, obj, TRUE, pool) EXCEPT !.live = @ \cup { obj } ]

\* a call that destroys or frees obj
ReleaseCall(t, fn, obj, pool) ==
    [ DriverCall(t, fn, obj, TRUE, pool) EXCEPT !.live = @ \ { obj } ]

SetError(t, code) == [ t EXCEPT !.error = code ]

\* vk->resources.command_pool: vulkano_create_resources creates one pool
ResourcesCommandPool == 1

\* the pool vulkano_create_rendering_state allocates the frame command
\* buffers from
FrameCommandPool == ResourcesCommandPool

\* the pool vulkano_acquire_single_use_command_buffer allocates from and the
\* pool the single use command buffers are freed to
SingleUseCommandPool == ResourcesCommandPool

\* ---------------------------------------------------- vulkano_destroy_buffer
TransferDestroyBuffer(t, b) ==
    LET t1 == IF b.handle # 0 THEN ReleaseCall(t, "vkDestroyBuffer", "buffer", 0) ELSE t
    IN  IF b.memory # 0 THEN ReleaseCall(t1, "vkFreeMemory", "memory", 0) ELSE t1

\* ----------------------------------------------------- vulkano_create_buffer
\* a create that keeps the buffer when the allocation fails
TransferCreateBufferKeepsHandle(t, a) ==
    LET t1 == CreateCall(t, "vkCreateBuffer", "buffer", a, 0)
        t2 == CreateCall(t1, "vkAllocateMemory", "memory", a, 0)
    IN  IF a.fail = "vkCreateBuffer"
        THEN [ t |-> SetError(t1, "FAILED_RESOURCE_CREATION"),
               buffer |-> ZeroTransferBuffer ]
        ELSE IF a.fail = "vkAllocateMemory"
        THEN [ t |-> SetError(t2, "FAILED_RESOURCE_ALLOCATION"),
               buffer |-> [ handle |-> 1, memory |-> 0 ] ]
        ELSE [ t |-> t2, buffer |-> [ handle |-> 1, memory |-> 1 ] ]

\* the state after the call and the struct it returns: on a failure the
\* handles it has released stay in the struct
TransferCreateBuffer(t, a) ==
    LET t1 == CreateCall(t, "vkCreateBuffer", "buffer", a, 0)
        chosen == IF a.fail = "select_memory_type"
                    THEN SetError(t1, "MEMORY_REQUIREMENTS_UNFULFILLED") ELSE t1
        t2 == CreateCall(chosen, "vkAllocateMemory", "memory", a, 0)
        t3 == DriverCall(t2, "vkBindBufferMemory", "buffer",
                         a.fail # "vkBindBufferMemory", 0)
    IN  IF a.fail = "vkCreateBuffer"
        THEN [ t |-> SetError(t1, "FAILED_RESOURCE_CREATION"),
               buffer |-> ZeroTransferBuffer ]
        ELSE IF chosen.error # "OK"
        THEN [ t |-> ReleaseCall(chosen, "vkDestroyBuffer", "buffer", 0),
               buffer |-> [ handle |-> 1, memory |-> 0 ] ]
        ELSE IF a.fail = "vkAllocateMemory"
        THEN [ t |-> ReleaseCall(SetError(t2, "FAILED_RESOURCE_ALLOCATION"),
                                 "vkDestroyBuffer", "buffer", 0),
               buffer |-> [ handle |-> 1, memory |-> 0 ] ]
        ELSE IF a.fail = "vkBindBufferMemory"
        THEN [ t |-> ReleaseCall(
                         ReleaseCall(SetError(t3, "FAILED_RESOURCE_ALLOCATION"),
                                     "vkDestroyBuffer", "buffer", 0),
                         "vkFreeMemory", "memory", 0),
               buffer |-> [ handle |-> 1, memory |-> 1 ] ]
        ELSE [ t |-> t3, buffer |-> [ handle |-> 1, memory |-> 1 ] ]

\* ------------------------------------------------------ vulkano_create_image
\* vulkano_destroy_image: the memory first, then the image, the struct zeroed
TransferDestroyImage(t, image) ==
    LET t1 == IF image.memory # 0 THEN ReleaseCall(t, "vkFreeMemory", "image_memory", 0)
              ELSE t
    IN  IF image.handle # 0 THEN ReleaseCall(t1, "vkDestroyImage", "image", 0) ELSE t1

TransferCreateImage(t, a, layout) ==
    LET created == [ ZeroImage EXCEPT !.layout = layout, !.handle = 1 ]
        t1 == CreateCall(t, "vkCreateImage", "image", a, 0)
        chosen == IF a.fail = "select_memory_type"
                    THEN SetError(t1, "MEMORY_REQUIREMENTS_UNFULFILLED") ELSE t1
        t2 == CreateCall(chosen, "vkAllocateMemory", "image_memory", a, 0)
        t3 == DriverCall(t2, "vkBindImageMemory", "image",
                         a.fail # "vkBindImageMemory", 0)
    IN  IF a.fail = "vkCreateImage"
        THEN [ t |-> SetError(t1, "OUT_OF_MEMORY"),
               image |-> [ ZeroImage EXCEPT !.layout = layout ] ]
        ELSE IF chosen.error # "OK"
        THEN [ t |-> TransferDestroyImage(chosen, created), image |-> ZeroImage ]
        ELSE IF a.fail = "vkAllocateMemory"
        THEN [ t |-> SetError(TransferDestroyImage(t2, created), "OUT_OF_MEMORY"),
               image |-> ZeroImage ]
        ELSE IF a.fail = "vkBindImageMemory"
        THEN [ t |-> SetError(TransferDestroyImage(t3, [ created EXCEPT !.memory = 1 ]),
                              "OUT_OF_MEMORY"),
               image |-> ZeroImage ]
        ELSE [ t |-> t3, image |-> [ created EXCEPT !.memory = 1 ] ]

\* ------------------------------- vulkano_acquire_single_use_command_buffer
TransferAcquire(t, a) ==
    LET t1 == CreateCall(t, "vkAllocateCommandBuffers", "cmd", a, SingleUseCommandPool)
        t2 == DriverCall(t1, "vkBeginCommandBuffer", "cmd",
                         a.fail # "vkBeginCommandBuffer", 0)
    IN  IF a.fail = "vkAllocateCommandBuffers" THEN SetError(t1, "OUT_OF_MEMORY")
        ELSE IF a.fail = "vkBeginCommandBuffer"
        THEN SetError(ReleaseCall(t2, "vkFreeCommandBuffers", "cmd", SingleUseCommandPool),
                      "OUT_OF_MEMORY")
        ELSE t2

\* -------------------------------- vulkano_submit_single_use_command_buffer
\* the calls before the cleanup label from the k-th on; `uses` are the objects
\* the recorded commands read and write: once vkQueueSubmit has succeeded the
\* GPU may be using them, the command buffer and the fence until a fence wait
\* returns VK_SUCCESS (or the device is lost)
RECURSIVE TransferSubmitFrom(_, _, _, _)
TransferSubmitFrom(k, t, a, uses) ==
    IF k > Len(SingleUseSteps) THEN [ t |-> t, result |-> "VK_SUCCESS" ]
    ELSE LET fn == SingleUseSteps[k]
             obj == IF fn \in { "vkCreateFence", "vkWaitForFences" } THEN "fence"
                    ELSE "cmd"
             called == IF fn = "vkCreateFence" THEN CreateCall(t, fn, obj, a, 0)
                       ELSE DriverCall(t, fn, obj, a.fail # fn, 0)
             result == IF a.fail # fn THEN "VK_SUCCESS"
                       ELSE IF fn = "vkWaitForFences" THEN a.wait
                       ELSE "VK_ERROR_OUT_OF_DEVICE_MEMORY"
             after ==
                 CASE fn = "vkQueueSubmit" /\ result = "VK_SUCCESS" ->
                        [ called EXCEPT !.pending = uses \cup { "cmd", "fence" } ]
                   [] fn = "vkWaitForFences"
                      /\ result \in { "VK_SUCCESS", "VK_ERROR_DEVICE_LOST" } ->
                        [ called EXCEPT !.pending = {} ]
                   [] OTHER -> called
         IN  IF result # "VK_SUCCESS" THEN [ t |-> after, result |-> result ]
             ELSE TransferSubmitFrom(k + 1, after, a, uses)

TransferSubmit(t, a, uses) ==
    LET run == TransferSubmitFrom(1, t, a, uses)
        freed == ReleaseCall(run.t, "vkFreeCommandBuffers", "cmd", SingleUseCommandPool)
        cleaned == IF a.fail # "vkCreateFence"
                   THEN ReleaseCall(freed, "vkDestroyFence", "fence", 0) ELSE freed
    IN  IF run.result = "VK_SUCCESS" THEN cleaned
        ELSE SetError(cleaned, SubmitSingleUseError(run.result))

\* ---------------------------------------------------- vulkano_copy_to_buffer
\* the host paths, into a staging buffer whose memory type is host visible
TransferHostCopy(t, a) ==
    LET mapped == DriverCall(t, "vkMapMemory", "memory", a.fail # "vkMapMemory", 0)
        flushed == DriverCall(mapped, "vkFlushMappedMemoryRanges", "memory",
                              a.fail # "vkFlushMappedMemoryRanges", 0)
    IN  IF a.fail = "vkMapMemory" THEN SetError(mapped, "OUT_OF_MEMORY")
        ELSE IF a.coherent THEN mapped
        ELSE IF a.fail = "vkFlushMappedMemoryRanges"
        THEN SetError(flushed, "OUT_OF_MEMORY")
        ELSE flushed

\* vulkano_copy_to_buffer_device_local
TransferCopyToBuffer(t, a, transfer_dst) ==
    LET st == TransferCreateBuffer(t, a)
        copied == TransferHostCopy(st.t, a)
        acquired == TransferAcquire(copied, a)
        submitted == TransferSubmit(acquired, a, { "buffer", "memory" })
    IN  IF ~transfer_dst THEN SetError(t, "VALIDATION")
        ELSE IF st.t.error # "OK" THEN st.t
        ELSE IF copied.error # "OK" THEN TransferDestroyBuffer(copied, st.buffer)
        ELSE IF acquired.error # "OK" THEN TransferDestroyBuffer(acquired, st.buffer)
        ELSE TransferDestroyBuffer(submitted, st.buffer)

\* ----------------------------------------------------- vulkano_copy_to_image
TransferCopyToImage(t, a) ==
    LET st == TransferCreateBuffer(t, a)
        acquired == TransferAcquire(st.t, a)
        copied == TransferHostCopy(acquired, a)
        submitted == TransferSubmit(copied, a, { "buffer", "memory" })
    IN  IF st.t.error # "OK" THEN TransferDestroyBuffer(st.t, st.buffer)
        ELSE IF acquired.error # "OK" THEN TransferDestroyBuffer(acquired, st.buffer)
        ELSE IF copied.error # "OK" THEN TransferDestroyBuffer(copied, st.buffer)
        ELSE TransferDestroyBuffer(submitted, st.buffer)

\* ----------------------------------------------- vulkano_image_change_layout
\* the transitions the function implements
LayoutTransitionSupported(old, new) ==
    \/ old = "UNDEFINED" /\ new = "TRANSFER_DST_OPTIMAL"
    \/ old = "TRANSFER_DST_OPTIMAL" /\ new = "SHADER_READ_ONLY_OPTIMAL"

\* the state after the call and image->layout
TransferImageChangeLayout(t, a, old, new) ==
    LET acquired == TransferAcquire(t, a)
        submitted == TransferSubmit(acquired, a, { "image", "image_memory" })
    IN  IF ~LayoutTransitionSupported(old, new)
        THEN [ t |-> SetError(t, "VALIDATION"), layout |-> old ]
        \* image->layout = layout; comes before the command buffer is acquired
        ELSE IF acquired.error # "OK" THEN [ t |-> acquired, layout |-> new ]
        ELSE [ t |-> submitted, layout |-> new ]

\* ------------------------------------------------ the operations as actions
\* the driver calls that destroy or free an object
ReleaseFns ==
    { "vkDestroyBuffer", "vkFreeMemory", "vkDestroyImage", "vkFreeCommandBuffers",
      "vkDestroyFence" }

\* the driver calls that create or allocate one
CreateFns ==
    { "vkCreateBuffer", "vkAllocateMemory", "vkCreateImage", "vkAllocateCommandBuffers",
      "vkCreateFence" }

CallsOf(calls, fns) == { i \in DOMAIN calls : calls[i].fn \in fns /\ calls[i].ok }

\* an application about to call one operation; recording: it is between
\* vulkano_begin_frame and vulkano_submit_frame, the frame's command buffer,
\* allocated from frame_pool, is being recorded
InitTransfer ==
    /\ OtherIdle
    /\ PureIdleBut("transfer")
    /\ transfer \in
         { [ phase |-> "ready", call |-> c, answers |-> a, recording |-> r,
             frame_pool |-> FrameCommandPool, error |-> "OK", calls |-> << >>,
             live |-> {}, pending |-> {}, buffer |-> ZeroTransferBuffer,
             image |-> [ ZeroImage EXCEPT !.layout = c.layout,
                                          !.handle = IF c.op = "create_image" THEN 0 ELSE 1,
                                          !.memory = IF c.op = "create_image" THEN 0 ELSE 1 ] ] :
             c \in TransferCalls, a \in TransferAnswers, r \in BOOLEAN }

\* what every operation leaves behind when it returns
TransferReturn(name, t, b, image) ==
    /\ transfer' = [ transfer EXCEPT !.phase = "returned", !.error = t.error,
                                     !.calls = t.calls, !.live = t.live,
                                     !.pending = t.pending, !.buffer = b,
                                     !.image = image ]
    /\ error_code' = Raise(error_code, t.error)
    /\ Trace(name, t.error, Len(t.calls), Cardinality(CallsOf(t.calls, CreateFns)),
             Cardinality(CallsOf(t.calls, ReleaseFns)))
    /\ UNCHANGED << frame_vars, mem_vars, gpu_vars, call, slots, config,
                    extent_query, released, gpu_select, instance_call, merged, boot,
                    single_use, device_call, format_select, render_pass_call >>

TransferCreateBufferCall ==
    /\ transfer.phase = "ready" /\ transfer.call.op = "create_buffer"
    /\ LET r == TransferCreateBuffer(TransferStart, transfer.answers)
       IN  TransferReturn("create_buffer", r.t, r.buffer, transfer.image)

\* the caller hands the struct a create returned to vulkano_destroy_buffer
TransferDestroyBufferCall ==
    /\ transfer.phase = "returned" /\ transfer.call.op = "create_buffer"
    /\ LET t == TransferDestroyBuffer(
                    [ error |-> transfer.error, calls |-> transfer.calls,
                      live |-> transfer.live, pending |-> transfer.pending ],
                    transfer.buffer)
       IN  /\ transfer' = [ transfer EXCEPT !.phase = "destroyed", !.calls = t.calls,
                                            !.live = t.live,
                                            !.buffer = ZeroTransferBuffer ]
           /\ error_code' = error_code
           /\ Trace("destroy_buffer", "OK", Len(t.calls) - Len(transfer.calls), 0,
                    Len(t.calls) - Len(transfer.calls))
    /\ UNCHANGED << frame_vars, mem_vars, gpu_vars, call, slots, config,
                    extent_query, released, gpu_select, instance_call, merged, boot,
                    single_use, device_call, format_select, render_pass_call >>

TransferCreateImageCall ==
    /\ transfer.phase = "ready" /\ transfer.call.op = "create_image"
    /\ LET r == TransferCreateImage(TransferStart, transfer.answers, transfer.call.layout)
       IN  TransferReturn("create_image", r.t, transfer.buffer, r.image)

TransferCopyToBufferCall ==
    /\ transfer.phase = "ready" /\ transfer.call.op = "copy_to_buffer"
    /\ TransferReturn("copy_to_buffer",
                      TransferCopyToBuffer(TransferStart, transfer.answers,
                                           transfer.call.transfer_dst),
                      transfer.buffer, transfer.image)

TransferCopyToImageCall ==
    /\ transfer.phase = "ready" /\ transfer.call.op = "copy_to_image"
    /\ TransferReturn("copy_to_image",
                      TransferCopyToImage(TransferStart, transfer.answers),
                      transfer.buffer, transfer.image)

TransferImageChangeLayoutCall ==
    /\ transfer.phase = "ready" /\ transfer.call.op = "image_change_layout"
    /\ LET r == TransferImageChangeLayout(TransferStart, transfer.answers,
                                          transfer.image.layout, transfer.call.new_layout)
       IN  TransferReturn("image_change_layout", r.t, transfer.buffer,
                          [ transfer.image EXCEPT !.layout = r.layout ])

NextTransfer ==
    \/ TransferCreateBufferCall
    \/ TransferDestroyBufferCall
    \/ TransferCreateImageCall
    \/ TransferCopyToBufferCall
    \/ TransferCopyToImageCall
    \/ TransferImageChangeLayoutCall

SpecTransfer == InitTransfer /\ [][NextTransfer]_vars

\* ---- logical device creation
\* what a queue family supports: graphics, presentation to the surface, both
\* or neither
FamilySupport == { "graphics", "present", "both", "none" }

\* the queue families a physical device reports, at most MaxFamilies of them
RECURSIVE FamilyLists(_)
FamilyLists(n) ==
    IF n = 0 THEN { << >> }
    ELSE FamilyLists(n - 1)
         \cup { Append(l, f) : l \in { x \in FamilyLists(n - 1) : Len(x) = n - 1 },
                               f \in FamilySupport }

\* confirm_gpu_selection's loop: the index (from 0) of the first family that
\* supports graphics and presentation, -1 when the device has none
RECURSIVE FirstSuitableFamily(_, _)
FirstSuitableFamily(families, i) ==
    IF i >= Len(families) THEN -1
    ELSE IF families[i + 1] = "both" THEN i
    ELSE FirstSuitableFamily(families, i + 1)

\* the family index in vulkano_create_device's VkDeviceQueueCreateInfo: the
\* initialiser names .sType, .queueCount and .pQueuePriorities, the rest is zero
QueueCreateInfoFamily == 0

\* the queues vkCreateDevice makes for that create info
DeviceQueues == { [ family |-> QueueCreateInfoFamily, index |-> 0 ] }

\* what vkGetDeviceQueue can write for a queue the device was not created with
UndefinedQueues == { [ family |-> -1, index |-> -1 ] } \cup DeviceQueues

InitDevice ==
    /\ OtherIdle
    /\ PureIdleBut("device_call")
    /\ device_call \in
         { [ phase |-> "enumerated", families |-> f, result |-> r,
             graphics_queue_family |-> 0, queues |-> {},
             graphics_queue |-> [ family |-> -1, index |-> -1 ] ] :
             f \in FamilyLists(MaxFamilies) \ { << >> },
             r \in { "VK_SUCCESS", "VK_ERROR_INITIALIZATION_FAILED" } }

\* confirm_gpu_selection on a device that supports the required extensions
ConfirmGpu ==
    /\ device_call.phase = "enumerated"
    /\ LET i == FirstSuitableFamily(device_call.families, 0)
       IN  /\ device_call' =
                 IF i < 0 THEN [ device_call EXCEPT !.phase = "rejected" ]
                 ELSE [ device_call EXCEPT !.phase = "selected",
                                           !.graphics_queue_family = i ]
           /\ error_code' = error_code
           /\ Trace("confirm_gpu_selection", "OK", 1 + Len(device_call.families), 0, 0)
    /\ UNCHANGED << frame_vars, mem_vars, gpu_vars, call, slots, config,
                    extent_query, released, gpu_select, instance_call, merged, boot,
                    single_use, transfer, format_select, render_pass_call >>

\* vulkano_create_device
CreateDevice ==
    /\ device_call.phase = "selected"
    /\ IF device_call.result # "VK_SUCCESS"
       THEN /\ device_call' = [ device_call EXCEPT !.phase = "failed" ]
            /\ error_code' = Raise(error_code, "DEVICE_CREATION_FAILED")
            /\ Trace("create_device", "DEVICE_CREATION_FAILED", 1, 0, 0)
       ELSE \E q \in IF [ family |-> device_call.graphics_queue_family, index |-> 0 ]
                        \in DeviceQueues
                     THEN { [ family |-> device_call.graphics_queue_family, index |-> 0 ] }
                     ELSE UndefinedQueues :
              /\ device_call' = [ device_call EXCEPT !.phase = "created",
                                                     !.queues = DeviceQueues,
                                                     !.graphics_queue = q ]
              /\ error_code' = error_code
              /\ Trace("create_device", "OK", 2, 1, 0)
    /\ UNCHANGED << frame_vars, mem_vars, gpu_vars, call, slots, config,
                    extent_query, released, gpu_select, instance_call, merged, boot,
                    single_use, transfer, format_select, render_pass_call >>

NextDevice == ConfirmGpu \/ CreateDevice

SpecDevice == InitDevice /\ [][NextDevice]_vars

\* ---- surface format selection
\* bitwise and of two naturals, as the C operator & on uint32_t
RECURSIVE BitAnd(_, _)
BitAnd(x, y) ==
    IF x = 0 \/ y = 0 THEN 0
    ELSE (x % 2) * (y % 2) + 2 * BitAnd(x \div 2, y \div 2)

\* the surface formats a driver can offer
SurfaceFormats ==
    [ format : { "B8G8R8A8_SRGB", "B8G8R8A8_UNORM", "R8G8B8A8_SRGB" },
      colorSpace : { "SRGB_NONLINEAR", "HDR10_ST2084" } ]

\* lists of distinct formats, at most n long
RECURSIVE FormatLists(_)
FormatLists(n) ==
    IF n = 0 THEN { << >> }
    ELSE FormatLists(n - 1)
         \cup { Append(l, f) : l \in { x \in FormatLists(n - 1) : Len(x) = n - 1 },
                               f \in SurfaceFormats }

STANDARD_COLOR_SPACE_BIT == Pow2(30)
STANDARD_COLOR_FORMAT_BIT == Pow2(29)

\* score_surface_format: score starts at 0 and each bit is combined with &=
score_surface_format(f) ==
    LET score == 0
        s1 == IF f.colorSpace = "SRGB_NONLINEAR" THEN BitAnd(score, STANDARD_COLOR_SPACE_BIT)
              ELSE score
    IN  IF f.format = "B8G8R8A8_SRGB" THEN BitAnd(s1, STANDARD_COLOR_FORMAT_BIT) ELSE s1

default_surface_format_compare(fmt1, fmt2) ==
    LET score1 == score_surface_format(fmt1)
        score2 == score_surface_format(fmt2)
    IN  IF score1 > score2 THEN 1 ELSE IF score1 = score2 THEN 0 ELSE -1

\* the orders qsort can leave the formats in with that comparator: worst to
\* best, formats that compare equal in any order
SortedFormatOrders(formats) ==
    { p \in [ DOMAIN formats -> DOMAIN formats ] :
        /\ \A i, j \in DOMAIN formats : i # j => p[i] # p[j]
        /\ \A i, j \in DOMAIN formats :
              i < j => default_surface_format_compare(formats[p[i]], formats[p[j]]) <= 0 }

\* the three driver queries of vulkano_select_surface_format, the one that
\* fails ("none": none does)
FormatQueryFailures == { "none", "capabilities", "count", "formats" }

InitFormat ==
    /\ OtherIdle
    /\ PureIdleBut("format_select")
    /\ format_select \in
         { [ phase |-> "offered", formats |-> l, fail |-> f,
             result |-> [ format |-> "UNDEFINED", colorSpace |-> "SRGB_NONLINEAR" ] ] :
             l \in { x \in FormatLists(MaxFormats) : Len(x) >= 1
                         /\ \A i, j \in DOMAIN x : i # j => x[i] # x[j] },
             f \in FormatQueryFailures }

\* vulkano_select_surface_format with default_surface_format_compare
SelectSurfaceFormat ==
    /\ format_select.phase = "offered"
    /\ IF format_select.fail # "none"
       THEN /\ format_select' = [ format_select EXCEPT !.phase = "failed" ]
            /\ error_code' = Raise(error_code, "FAILED_ENUMERATION")
            /\ Trace("select_surface_format", "FAILED_ENUMERATION",
                     IF format_select.fail = "capabilities" THEN 1
                     ELSE IF format_select.fail = "count" THEN 2 ELSE 3, 0, 0)
       ELSE \E p \in SortedFormatOrders(format_select.formats) :
              /\ format_select' =
                     [ format_select EXCEPT
                         !.phase = "selected",
                         !.result = format_select.formats[p[Len(format_select.formats)]] ]
              /\ error_code' = error_code
              /\ Trace("select_surface_format", "OK", 3, 0, 0)
    /\ UNCHANGED << frame_vars, mem_vars, gpu_vars, call, slots, config,
                    extent_query, released, gpu_select, instance_call, merged, boot,
                    single_use, transfer, device_call, render_pass_call >>

NextFormat == SelectSurfaceFormat

SpecFormat == InitFormat /\ [][NextFormat]_vars

\* ---- the render pass of a frame
\* vk->resources.render_passes after vulkano_create_render_passes: count
\* distinct handles, indexed from 0
RenderPassArrays(count) ==
    { a \in [ 0 .. count - 1 -> 1 .. MaxHandles ] :
        \A i, j \in 0 .. count - 1 : i # j => a[i] # a[j] }

\* VULKANO_RENDER_PASS(vulkano, index)
VULKANO_RENDER_PASS(render_passes, index) == render_passes[index]

\* the render pass index vulkano_begin_frame hands to VULKANO_RENDER_PASS
BeginFrameRenderPassIndex == 0

InitRenderPass ==
    /\ OtherIdle
    /\ PureIdleBut("render_pass_call")
    /\ render_pass_call \in
         { [ phase |-> "initialised", render_passes |-> a, render_pass_index |-> i,
             image_count |-> n, swapchain_render_pass |-> 0, swapchain_image_count |-> 0,
             framebuffers |-> << >>,
             begun |-> [ renderPass |-> 0, framebuffer |-> [ render_pass |-> 0, image |-> 0 ] ] ] :
             a \in UNION { RenderPassArrays(c) : c \in 1 .. MaxResources },
             i \in 0 .. MaxResources, n \in 1 .. MaxImages + 1 }

\* vulkano_configure_swapchain, the surface capabilities query succeeding
RenderPassConfigure ==
    /\ render_pass_call.phase = "initialised"
    /\ LET r == render_pass_call
           count == Cardinality(DOMAIN r.render_passes)
           code == IF r.render_pass_index >= count THEN "BAD_CONFIGURATION"
                   ELSE IF \/ r.image_count < caps.minImageCount
                           \/ r.image_count > caps.maxImageCount
                   THEN "SWAPCHAIN_CONFIGURATION_FAILED"
                   ELSE "OK"
       IN  /\ render_pass_call' =
                 [ r EXCEPT !.phase = IF code = "OK" THEN "configured" ELSE "failed",
                            !.swapchain_render_pass =
                                IF code = "BAD_CONFIGURATION" THEN @
                                ELSE r.render_passes[r.render_pass_index],
                            !.swapchain_image_count =
                                IF code = "OK" THEN r.image_count ELSE @ ]
           /\ error_code' = Raise(error_code, code)
           /\ Trace("configure_swapchain", code, 1, 0, 0)
    /\ UNCHANGED << frame_vars, mem_vars, gpu_vars, call, slots, config,
                    extent_query, released, gpu_select, instance_call, merged, boot,
                    single_use, transfer, device_call, format_select >>

\* vulkano_create_swapchain, every driver call succeeding: one framebuffer
\* for each image, made for vk->swapchain.render_pass
RenderPassCreateSwapchain ==
    /\ render_pass_call.phase = "configured"
    /\ render_pass_call' =
           [ render_pass_call EXCEPT
               !.phase = "created",
               !.framebuffers =
                   [ i \in 1 .. render_pass_call.swapchain_image_count |->
                       [ render_pass |-> render_pass_call.swapchain_render_pass,
                         image |-> i - 1 ] ] ]
    /\ error_code' = error_code
    /\ Trace("create_swapchain", "OK", 2 + 2 * render_pass_call.swapchain_image_count,
             1 + 2 * render_pass_call.swapchain_image_count, 0)
    /\ UNCHANGED << frame_vars, mem_vars, gpu_vars, call, slots, config,
                    extent_query, released, gpu_select, instance_call, merged, boot,
                    single_use, transfer, device_call, format_select >>

\* vulkano_begin_frame, the fence wait, the acquire of image image_index and
\* vkBeginCommandBuffer succeeding: the VkRenderPassBeginInfo handed to
\* vkCmdBeginRenderPass
RenderPassBeginFrame(image_index) ==
    /\ render_pass_call.phase = "created"
    /\ image_index < render_pass_call.swapchain_image_count
    /\ render_pass_call' =
           [ render_pass_call EXCEPT
               !.phase = "recording",
               !.begun = [ renderPass |-> VULKANO_RENDER_PASS(render_pass_call.render_passes,
                                                              BeginFrameRenderPassIndex),
                           framebuffer |-> render_pass_call.framebuffers[image_index + 1] ] ]
    /\ error_code' = error_code
    /\ Trace("begin_frame", "OK", 5, 0, 0)
    /\ UNCHANGED << frame_vars, mem_vars, gpu_vars, call, slots, config,
                    extent_query, released, gpu_select, instance_call, merged, boot,
                    single_use, transfer, device_call, format_select >>

NextRenderPass ==
    \/ RenderPassConfigure
    \/ RenderPassCreateSwapchain
    \/ \E image_index \in 0 .. MaxImages : RenderPassBeginFrame(image_index)

SpecRenderPass == InitRenderPass /\ [][NextRenderPass]_vars

\* ---- GPU ranking
InitGpu ==
    /\ TraceInit
    /\ SetupIdle
    /\ caps = [ minImageCount |-> 2, maxImageCount |-> MaxImages, minExtent |-> 1,
                maxExtent |-> MaxDim, use_sentinel |-> FALSE ]
    /\ memory_types = << >>
    /\ MemIdle
    /\ gpus \in Gpus \X Gpus
    /\ compared = NotCompared
    /\ AuxIdle

NextGpu == GpuCompare

SpecGpu == InitGpu /\ [][NextGpu]_vars

\* =========================================================================
\* Properties
\* =========================================================================
OutOfDate == "VK_ERROR_OUT_OF_DATE_KHR"

\* vulkano_begin_frame has returned
BeginFrameReturned == op = "begin_frame" /\ pc \in { "idle", "recording" }

\* the swapchain is not the one the out-of-date present was made on: new
\* handle, new image views and framebuffers, one per image
RebuiltSince(old) ==
    /\ swapchain.handle \notin { 0, old }
    /\ Len(swapchain.image_views) = swapchain.image_count
    /\ Len(swapchain.framebuffers) = swapchain.image_count
    /\ \A i \in 1 .. swapchain.image_count :
         /\ swapchain.image_views[i] = swapchain.handle
         /\ swapchain.framebuffers[i] = swapchain.handle

\* C1: under SpecFrame, the command buffer of every submission the GPU has not
\* finished is still pending (begin_frame has neither reset nor re-recorded
\* it), and no more submissions are unfinished than there are frame slots.
C1_NoReuseBeforeFence ==
    /\ \A k \in DOMAIN inflight :
         rendering.command_buffers[inflight[k].command_buffer] = "pending"
    /\ Len(inflight) <= VULKANO_CONCURRENT_FRAMES

\* a slot is being recorded for the second time while the other slot's frame
\* is still on the GPU
C1_SlotReused ==
    /\ pc = "recording"
    /\ rendering.frame_count >= VULKANO_CONCURRENT_FRAMES
    /\ inflight # << >>

C8_DestroyIdempotentCreateSized ==
    [][ /\ (op' = "destroy_swapchain" /\ TornDown(swapchain))
            => /\ ndestroy' = 0
               /\ ncalls' = 0
               /\ swapchain' = swapchain
               /\ error_code' = error_code
        /\ (op' = "create_swapchain" /\ ret' = "ok")
            => /\ Len(swapchain'.image_views) = swapchain'.image_count
               /\ Len(swapchain'.framebuffers) = swapchain'.image_count
               /\ \A i \in 1 .. swapchain'.image_count :
                    IsLive(swapchain'.image_views[i])
                    /\ IsLive(swapchain'.framebuffers[i]) ]_vars

\* a destroy found nothing to destroy, after a swapchain had been created
C8_DestroyedTwice ==
    /\ op = "destroy_swapchain"
    /\ ndestroy = 0
    /\ next_handle > 1

ImageCountOutOfRange ==
    \/ cfg_args.image_count < caps.minImageCount
    \/ cfg_args.image_count > caps.maxImageCount

\* C9 (as amended): under SpecSwapchain, vulkano_configure_swapchain with an
\* image_count outside [minImageCount, maxImageCount] fails without creating a
\* driver object; the code it sets is
\* SWAPCHAIN_CONFIGURATION_FAILED when the capability query succeeded and
\* render_pass_index is in range, FAILED_ENUMERATION when the query failed and
\* BAD_CONFIGURATION when the query succeeded and the index is out of range.
C9_ImageCountRejected ==
    (op = "configure_swapchain" /\ ImageCountOutOfRange)
        => /\ ret = "err"
           /\ ncreate = 0
           /\ swapchain.handle = 0
           /\ error_code =
                IF ~cfg_args.caps_ok THEN "FAILED_ENUMERATION"
                ELSE IF cfg_args.render_pass_index >= NumRenderPasses
                THEN "BAD_CONFIGURATION"
                ELSE "SWAPCHAIN_CONFIGURATION_FAILED"

\* an image_count above the surface's maximum was rejected for that reason
C9_AboveMaximumRejected ==
    /\ op = "configure_swapchain"
    /\ cfg_args.image_count > caps.maxImageCount
    /\ cfg_args.caps_ok
    /\ cfg_args.render_pass_index < NumRenderPasses
    /\ error_code = "SWAPCHAIN_CONFIGURATION_FAILED"

\* C9 as stated: every configure call with an image_count out of range fails
\* with the image-count error, no driver object created.
C9_AsStated ==
    (op = "configure_swapchain" /\ ImageCountOutOfRange)
        => (error_code = "SWAPCHAIN_CONFIGURATION_FAILED" /\ ncreate = 0)

\* C2: under SpecMem, a buffer call entered with a non-OK code in the error
\* record makes no driver call, and vulkano_create_buffer then returns the
\* zero buffer it was to fill.
C2_NoOpOnError ==
    /\ (op \in { "create_buffer", "copy_to_buffer" } /\ entry # "OK") => ncalls = 0
    /\ (op = "create_buffer" /\ entry # "OK") => buffer = ZeroBuffer

\* C3: under SpecMem, while a chain of buffer calls runs on one error record
\* the record holds the code set by the first call of the chain that failed.
C3_FirstErrorKept == first_error # "OK" => error_code = first_error

\* the copy was dispatched to vulkano_copy_to_buffer_device_local and passed
\* its usage test
DeviceLocalCopy ==
    /\ op = "copy_to_buffer"
    /\ staging.length <= buffer.capacity
    /\ "HOST_COHERENT" \notin buffer.memory_flags
    /\ "HOST_VISIBLE" \notin buffer.memory_flags
    /\ "TRANSFER_DST" \in buffer.usage

\* C5: under SpecMem, a vulkano_copy_to_buffer of more bytes than the buffer's
\* capacity sets VALIDATION and makes no driver call: no map, no staging
\* buffer, no command buffer, whatever the buffer's memory flags.
C5_OverflowRejected ==
    (op = "copy_to_buffer" /\ staging.length > buffer.capacity)
        => /\ error_code = "VALIDATION"
           /\ ret = "err"
           /\ ncalls = 0
           /\ ncreate = 0
           /\ staging.attempts = 0

\* an overflowing copy into a live buffer of device-local memory was rejected
C5_OverflowOnDeviceLocal ==
    /\ op = "copy_to_buffer"
    /\ staging.length > buffer.capacity
    /\ buffer.memory_flags = { "DEVICE_LOCAL" }
    /\ buffer.handle \in live

\* C6: under SpecMem, a copy into a buffer that has transfer-destination usage
\* and memory neither host-coherent nor host-visible calls
\* vulkano_create_buffer once for a staging buffer; if that buffer is created
\* it is filled through the host-coherent or the host-visible path and
\* destroyed once before the copy returns, whether the copy succeeds or fails,
\* and no driver object of the copy outlives it; if it is not created the copy
\* fails or was entered with an error.
C6_OneStagingBuffer ==
    DeviceLocalCopy
        => /\ staging.attempts = 1
           /\ staging.created <= 1
           /\ staging.created = 1
                => /\ staging.destroyed = 1
                   /\ staging.path \in { "host_coherent", "host_visible" }
           /\ staging.created = 0
                => /\ staging.destroyed = 0
                   /\ (ret = "err" \/ entry # "OK")
           /\ live \subseteq { buffer.handle, buffer.memory }

\* a copy failed after its staging buffer was created, and destroyed it
C6_StagingDestroyedOnFailure ==
    /\ DeviceLocalCopy
    /\ staging.created = 1
    /\ staging.destroyed = 1
    /\ ret = "err"

\* the indices select_memory_type may return, stated without its loop
MatchingTypes(types, bits, required) ==
    { i \in 0 .. (Len(types) - 1) :
        /\ (bits \div Pow2(i)) % 2 = 1
        /\ required \subseteq types[i + 1] }

\* C7: under SpecSelect, when some memory type has its bit in the mask and all
\* requested property flags, select_memory_type returns the lowest such index
\* and sets no error; when none has, it sets MEMORY_REQUIREMENTS_UNFULFILLED
\* and vulkano_create_buffer neither allocates with the returned index nor
\* reads the table with it.
C7_LowestMatchOrError ==
    selected.called
        => LET matching ==
                   MatchingTypes(memory_types, selected.bits, selected.required)
           IN  /\ matching # {}
                    => /\ selected.code = "OK"
                       /\ selected.index \in matching
                       /\ \A j \in matching : selected.index <= j
                       /\ selected.allocated \in { -1, selected.index }
               /\ matching = {}
                    => /\ selected.code = "MEMORY_REQUIREMENTS_UNFULFILLED"
                       /\ selected.allocated = -1
                       /\ buffer.memory = 0
                       /\ buffer.memory_flags = {}
                       /\ error_code # "OK"

\* two types matched and the lower index was returned and allocated from
C7_LowerOfTwoChosen ==
    /\ selected.called
    /\ Cardinality(MatchingTypes(memory_types, selected.bits, selected.required)) >= 2
    /\ selected.allocated = selected.index

DeviceLocalHeap(gpu) == FirstDeviceLocalHeap(gpu.memoryHeaps, 1)

Outranks(t1, t2) ==
    \/ t1 = "DISCRETE_GPU" /\ t2 \in { "INTEGRATED_GPU", "VIRTUAL_GPU" }
    \/ t1 = "INTEGRATED_GPU" /\ t2 = "VIRTUAL_GPU"

\* C10: under SpecGpu, default_gpu_compare puts a discrete GPU above an
\* integrated one and an integrated above a virtual one whatever their
\* device-local heap sizes, and of two GPUs of one tier the one with the
\* larger device-local heap above the other, for every heap size the score's
\* integer type holds.
C10_TierThenHeap ==
    compared.called
        => /\ Outranks(gpus[1].deviceType, gpus[2].deviceType)
                => compared.value = 1
           /\ ( /\ gpus[1].deviceType = gpus[2].deviceType
                /\ DeviceLocalHeap(gpus[1]) > DeviceLocalHeap(gpus[2]) )
                => compared.value = 1

\* both per-image arrays are allocated, with image_count entries each
AllAllocated(sc) ==
    /\ sc.image_views # NullArray
    /\ sc.framebuffers # NullArray
    /\ Len(sc.image_views) = sc.image_count
    /\ Len(sc.framebuffers) = sc.image_count

\* C11: under SpecFrame, after every step of a swapchain operation (the
\* destroy and create that vulkano_begin_frame performs on a stale swapchain,
\* succeeding or failing at any driver call) the image-view and framebuffer
\* arrays are both allocated with image_count entries, or both null with a
\* null swapchain handle.
C11_ArraysTogether ==
    op \in { "create_swapchain", "destroy_swapchain", "begin_frame" }
        => (AllAllocated(swapchain) \/ TornDown(swapchain))

\* a rebuild inside begin_frame failed after it had created the swapchain and
\* at least one image view, and its cleanup tore the swapchain down
C11_TornDownByFailedRebuild ==
    /\ op = "begin_frame"
    /\ ret = "err"
    /\ ncreate > 1
    /\ TornDown(swapchain)

\* the framebuffer has not been destroyed: it is an entry of the swapchain's
\* framebuffer array
FramebufferAlive(h) ==
    \E i \in DOMAIN swapchain.framebuffers : swapchain.framebuffers[i] = h

\* C12: under SpecFrame, the framebuffer that a submitted command buffer
\* renders to exists until the GPU has finished that command buffer: no
\* swapchain teardown happens while a submission is unfinished (each is
\* preceded by a device-idle wait).
C12_NoDestroyWhileInFlight ==
    \A k \in DOMAIN inflight : FramebufferAlive(inflight[k].framebuffer)

\* the configuration of src/example/main.c: the two callbacks, all else zero
MinimalConfig ==
    [ ZeroConfig EXCEPT !.surface_creation = TRUE, !.query_size = TRUE ]

\* C13: under SpecInit, vulkano_init on a configuration that sets only the
\* two callbacks does not trip an assertion and raises none of the errors
\* that reject a configuration (so that it succeeds when every driver call
\* succeeds).
C13_MinimalConfigInitialises ==
    (op = "vulkano_init" /\ config = MinimalConfig)
        => /\ pc # "aborted"
           /\ error_code \notin { "BAD_CONFIGURATION", "SWAPCHAIN_CONFIGURATION_FAILED" }

\* the frame-complete fence of the slot is signaled or a pending submission
\* will signal it
FenceWillSignal(slot) ==
    \/ rendering.frame_complete[slot] = "signaled"
    \/ \E k \in DOMAIN inflight : inflight[k].fence = slot

\* vulkano_begin_frame has returned from a rebuild in which the surface of a
\* minimised window reported a zero-area extent and vkCreateSwapchainKHR,
\* called with that extent, created nothing
MinimizedAtCreate ==
    /\ BeginFrameReturned
    /\ AcquireIsStale(call.acquire)
    /\ window.width = 0
    /\ swapchain.extent.width = 0
    /\ ncreate = 0

\* C14: under SpecFrame, a begin_frame that meets a minimised window returns
\* a condition the render loop can continue on, with the swapchain still
\* built and the fence of its slot signaled or about to be.
C14_MinimizedRecoverable ==
    MinimizedAtCreate
        => /\ LoopRunning
           /\ ~TornDown(swapchain)
           /\ FenceWillSignal(BeginFrameIndex(rendering.frame_count,
                                              VULKANO_CONCURRENT_FRAMES))

StaleResults == { "VK_ERROR_OUT_OF_DATE_KHR", "VK_SUBOPTIMAL_KHR" }

\* the errors vulkano_create_swapchain raises
CreateSwapchainErrors ==
    { "FAILED_ENUMERATION", "FAILED_SWAPCHAIN_CREATION", "OUT_OF_MEMORY",
      "FAILED_RESOURCE_CREATION" }

\* a swapchain of one generation: a handle and its views and framebuffers
Built(sc) ==
    /\ sc.handle # 0
    /\ AllAllocated(sc)
    /\ \A i \in 1 .. sc.image_count :
         sc.image_views[i] = sc.handle /\ sc.framebuffers[i] = sc.handle

\* C15: under SpecFrame, a pass of vulkano_begin_frame whose acquire returned
\* out-of-date or suboptimal destroys the swapchain and creates it again
\* without waiting on or resetting the fence or resetting the command buffer
\* again; it goes back to the acquire only with a new swapchain built and the
\* error record OK; when creation failed it returns with one of the errors of
\* vulkano_create_swapchain, and otherwise returns only with an error.
C15_RebuildThenReacquire ==
    [][ (pc = "acquire_image" /\ op' = "begin_frame" /\ call'.acquire \in StaleResults)
            => /\ swapchain'.handle # swapchain.handle
               /\ ndestroy' >= DestroySwapchainCalls(swapchain)
               /\ rendering' = rendering
               /\ call'.wait = call.wait
               /\ pc' = "acquire_image"
                    => (error_code' = "OK" /\ Built(swapchain'))
               /\ pc' # "acquire_image" => (pc' = "idle" /\ ret' = "err")
               /\ swapchain'.handle = 0
                    => (pc' = "idle" /\ error_code' \in CreateSwapchainErrors) ]_vars

\* the swapchain was rebuilt while a frame was in flight and begin_frame is
\* about to acquire again
C15_AboutToReacquire ==
    /\ pc = "acquire_image"
    /\ op = "begin_frame"
    /\ call.acquire \in StaleResults
    /\ inflight # << >>

\* C16: under SpecRetry, a vulkano_begin_frame call that has reached its
\* acquire step eventually returns, whatever the driver answers.
C16_BeginFrameReturns == (pc = "acquire_image") ~> (pc # "acquire_image")

\* vulkano_submit_frame has returned after its queue submit succeeded and it
\* presented
Presented == op = "submit_frame" /\ last_present # "none"

\* C17 (as amended): under SpecFrame, after a successful queue submit a
\* present result of SUCCESS, SUBOPTIMAL or OUT_OF_DATE leaves the error
\* record OK, a present result that is an out-of-memory error sets
\* OUT_OF_MEMORY, and every other present result sets FATAL_ERROR.
C17_PresentErrors ==
    Presented
        => IF last_present \in { "VK_SUCCESS", "VK_SUBOPTIMAL_KHR", OutOfDate }
           THEN ret = "ok" /\ error_code = "OK"
           ELSE IF IS_VULKAN_MEMORY_ERROR(last_present)
           THEN ret = "err" /\ error_code = "OUT_OF_MEMORY"
           ELSE ret = "err" /\ error_code = "FATAL_ERROR"

\* a present on a suboptimal swapchain left the error record OK
C17_SuboptimalPresented ==
    /\ Presented
    /\ last_present = "VK_SUBOPTIMAL_KHR"
    /\ error_code = "OK"

\* C17 as stated: every present result other than SUCCESS, SUBOPTIMAL and
\* OUT_OF_DATE is reported as FATAL_ERROR.
C17_AsStated ==
    Presented
        => IF last_present \in { "VK_SUCCESS", "VK_SUBOPTIMAL_KHR", OutOfDate }
           THEN error_code = "OK"
           ELSE error_code = "FATAL_ERROR"

\* C18: under SpecFrame, a vulkano_begin_frame whose fence wait returns
\* VK_TIMEOUT returns TIMEOUT after that one driver call: the fences, the
\* command buffers and frame_count are as before, no image is acquired, the
\* swapchain is untouched and no submission is added or lost.
C18_TimeoutLeavesStateAlone ==
    [][ (pc = "idle" /\ op' = "begin_frame" /\ call'.wait = "VK_TIMEOUT")
            => /\ error_code' = "TIMEOUT"
               /\ ret' = "err"
               /\ pc' = "idle"
               /\ ncalls' = 1
               /\ call'.acquire = "none"
               /\ rendering' = rendering
               /\ swapchain' = swapchain
               /\ next_handle' = next_handle
               /\ inflight' = inflight ]_vars

\* begin_frame timed out waiting for a slot whose frame is still in flight
C18_TimedOutInFlight ==
    /\ op = "begin_frame"
    /\ call.wait = "VK_TIMEOUT"
    /\ error_code = "TIMEOUT"
    /\ Len(inflight) = VULKANO_CONCURRENT_FRAMES

\* C19: under SpecSlots, in every build and for every frame,
\* vulkano_submit_frame indexes the slot vulkano_begin_frame indexed for that
\* frame, and it is the frame number modulo the number of slots.
C19_SameSlot ==
    slots.frame_count > 0
        => /\ slots.submit = slots.begin
           /\ slots.submit = (slots.frame_count - 1) % slots.concurrent_frames

\* C20: under SpecFrame, whenever the render loop is about to call
\* vulkano_begin_frame, the frame-complete fence of the slot that call selects
\* is signaled or belongs to a submission the GPU has not finished.
C20_FenceSignaledOrPending ==
    (pc = "idle" /\ LoopRunning)
        => FenceWillSignal(BeginFrameIndex(rendering.frame_count,
                                           VULKANO_CONCURRENT_FRAMES))

\* C21: under SpecFrame, every frame vulkano_begin_frame has begun, on a
\* surface that did not change while the call ran, has the surface's current
\* extent as its render area (vk->swapchain.extent): an extent that differed
\* when the call was entered has been replaced by a rebuild, whatever the
\* driver's acquire returned.
C21_RenderAreaIsSurfaceExtent ==
    (pc = "recording" /\ op = "begin_frame" /\ call.surface = SurfaceExtent)
        => swapchain.extent = SurfaceExtent

\* value clamped into [min, max] is v
ClampedInto(min, max, value, v) ==
    /\ v \in min .. max
    /\ value \in min .. max => v = value
    /\ value < min => v = min
    /\ value > max => v = max

\* C22: under SpecExtent, the extent vulkano_create_swapchain stores is, when
\* the driver's current extent is the match-window sentinel, the size the
\* query_size callback reported with width and height each clamped into the
\* surface's [minImageExtent, maxImageExtent], the callback having been
\* called once; otherwise it is the reported current extent unchanged and the
\* callback has not been called.
C22_ExtentResolved ==
    extent_query.done
        => LET c == extent_query.capabilities
           IN  IF IsSentinel(c.currentExtent)
               THEN /\ extent_query.queried = 1
                    /\ ClampedInto(c.minImageExtent.width, c.maxImageExtent.width,
                                   extent_query.size.width, extent_query.extent.width)
                    /\ ClampedInto(c.minImageExtent.height, c.maxImageExtent.height,
                                   extent_query.size.height, extent_query.extent.height)
               ELSE /\ extent_query.queried = 0
                    /\ extent_query.extent = c.currentExtent

\* the sentinel was reported and the window is wider than the surface allows
\* and lower than it allows, with limits that differ between the dimensions
C22_ClampedBothWays ==
    /\ extent_query.done
    /\ IsSentinel(extent_query.capabilities.currentExtent)
    /\ extent_query.size.width > extent_query.capabilities.maxImageExtent.width
    /\ extent_query.size.height < extent_query.capabilities.minImageExtent.height
    /\ extent_query.capabilities.minImageExtent.height
         > extent_query.capabilities.maxImageExtent.width
    /\ extent_query.extent.width < extent_query.extent.height

\* position of the call that destroys object `index` of `kind` in a sequence
\* of driver destroy calls (0: not in it)
ReleasedAt(seq, kind, index) ==
    IF \E p \in DOMAIN seq : seq[p].kind = kind /\ seq[p].index = index
    THEN CHOOSE p \in DOMAIN seq : seq[p].kind = kind /\ seq[p].index = index
    ELSE 0

\* C23: under SpecSwapchain, in every vulkano_destroy_swapchain call each
\* framebuffer is destroyed before the image view with the same image index
\* (the one it references) and every image view and framebuffer is destroyed
\* before the swapchain handle.
C23_ReverseOrderOfCreation ==
    op = "destroy_swapchain"
        => /\ \A i \in 1 .. MaxImages + 1 :
                (ReleasedAt(released, "framebuffer", i) # 0
                 /\ ReleasedAt(released, "image_view", i) # 0)
                    => ReleasedAt(released, "framebuffer", i)
                         < ReleasedAt(released, "image_view", i)
           /\ \A p \in DOMAIN released :
                released[p].kind = "swapchain" => p = Len(released)

\* C24: under SpecSwapchain, a vulkano_create_swapchain that fails creating an
\* image view or a framebuffer makes exactly one driver destroy call for each
\* object it created (none for an array entry it never wrote) and leaves the
\* swapchain torn down.
C24_ExactlyTheCreatedDestroyed ==
    (op = "create_swapchain" /\ ret = "err"
     /\ error_code = "FAILED_RESOURCE_CREATION")
        => /\ ndestroy = ncreate
           /\ TornDown(swapchain)

\* the devices that meet the requirements of vulkano_select_gpu
Qualifying ==
    { i \in DOMAIN gpu_select.devices :
        /\ RequiredGpuExtensions \subseteq gpu_select.devices[i].extensions
        /\ \E f \in DOMAIN gpu_select.devices[i].families :
              gpu_select.devices[i].families[f] = "both" }

\* C25: under SpecSelectGpu, when the driver enumerated at least one device,
\* vulkano_select_gpu returns without error with a device that supports the
\* required extensions and has a queue family for graphics and presentation,
\* which no other such device outranks in the comparator's order; when no
\* device is such a device it fails with NO_SUITABLE_GPU_AVAILABLE.
C25_BestQualifyingGpu ==
    (gpu_select.done /\ gpu_select.enumerate = "ok" /\ gpu_select.devices # << >>)
        => IF Qualifying # {}
           THEN /\ gpu_select.code = "OK"
                /\ gpu_select.handle \in Qualifying
                /\ \A j \in Qualifying :
                     gpu_select.devices[j].rank
                         <= gpu_select.devices[gpu_select.handle].rank
           ELSE gpu_select.code = "NO_SUITABLE_GPU_AVAILABLE"

\* C26: under SpecInstance, when the driver's enumerations succeed and a
\* requested validation layer or instance extension is not among those the
\* driver enumerates, vulkano_create_instance reports
\* UNSUPPORTED_VALIDATION_LAYER or UNSUPPORTED_INSTANCE_EXTENSION and creates
\* no instance; an instance is created only when every requested layer and
\* extension is enumerated.
C26_AllOrNothing ==
    (instance_call.done
     /\ instance_call.driver \notin { "enumerate_layers", "enumerate_extensions" })
        => /\ instance_call.created
                => /\ instance_call.layers \subseteq instance_call.available_layers
                   /\ instance_call.extensions
                        \subseteq instance_call.supported_extensions
           /\ ~(instance_call.layers \subseteq instance_call.available_layers)
                => (instance_call.code = "UNSUPPORTED_VALIDATION_LAYER"
                    /\ ~instance_call.created)
           /\ (/\ instance_call.layers \subseteq instance_call.available_layers
               /\ ~(instance_call.extensions
                      \subseteq instance_call.supported_extensions))
                => (instance_call.code = "UNSUPPORTED_INSTANCE_EXTENSION"
                    /\ ~instance_call.created)

\* the names that occur in a list
NamesOf(list) == { list[i] : i \in DOMAIN list }

\* C27: under SpecMerge, the list combine_string_arrays_unique returns (its
\* allocation having succeeded) holds every name of either input list and no
\* name twice.
C27_UnionWithoutDuplicates ==
    (merged.done /\ merged.code = "OK")
        => /\ NamesOf(merged.combined) = NamesOf(merged.array1) \cup NamesOf(merged.array2)
           /\ \A i, j \in DOMAIN merged.combined :
                i # j => merged.combined[i] # merged.combined[j]


\* ---- vulkano_init and vulkano_destroy
\* driver object o was destroyed by one of the calls: by its own destroy call,
\* or, for a command buffer, by the destruction of the pool it came from
ReleasedBy(calls, o) ==
    \/ \E p \in DOMAIN calls :
         calls[p].kind = o.kind /\ calls[p].index = o.index /\ IsLive(calls[p].handle)
    \/ o.kind = "command_buffer" /\ \E p \in DOMAIN calls : calls[p].kind = "command_pool"

\* C28: once a bootstrap step of vulkano_init has set an error, no later step
\* runs, every driver object created so far is destroyed, and the returned
\* context is all-zero with the error code of the first failing step
C28_FailedInitLeavesNothing ==
    boot.phase = "failed" =>
        /\ boot.steps = SubSeq(StageOrder, 1, StageIndex(FailStage(boot.failure)))
        /\ \A o \in boot.created : ReleasedBy(boot.cleanup \o boot.destroy, o)
        /\ boot.vk = ZeroContext
        /\ error_code = boot.raised[1]

\* what vulkano_destroy destroys that was created from the logical device
DeviceChildren ==
    { "swapchain", "image_view", "framebuffer", "image_ready", "rendering_complete",
      "frame_complete", "render_pass", "descriptor_set_layout", "pipeline_layout",
      "shader_module", "graphics_pipeline", "descriptor_pool", "command_pool" }

\* in the calls, every call of kind `first` comes before every call of kind `then`
Before(calls, first, then) ==
    \A p, q \in DOMAIN calls :
        (calls[p].kind = first /\ calls[q].kind = then) => p < q

\* C29: vulkano_destroy waits for the device to be idle, then destroys the
\* swapchain objects, the per-slot synchronization objects and the resources
\* before the logical device, the device before the surface and the surface
\* before the instance; afterwards the context is all-zero and a second
\* vulkano_destroy makes no driver call
C29_DependentsBeforeOwners ==
    boot.phase \in { "failed", "destroyed", "destroyed_again" } =>
        /\ \A p \in DOMAIN boot.destroy :
              /\ boot.destroy[p].kind \in DeviceChildren \cup { "device" }
                    => boot.destroy[1].kind = "wait_idle"
              /\ boot.destroy[p].kind = "wait_idle" => p = 1
        /\ \A kind \in DeviceChildren : Before(boot.destroy, kind, "device")
        /\ Before(boot.destroy, "device", "surface")
        /\ Before(boot.destroy, "surface", "instance")
        /\ boot.vk = ZeroContext
        \* the context was destroyed before, by the application or by the
        \* cleanup of vulkano_init
        /\ (boot.phase = "destroyed_again"
             \/ (boot.phase = "destroyed" /\ boot.raised # << >>))
              => boot.destroy = << >>

\* a context that held objects of every kind was destroyed, then destroyed again
C29_DestroyedTwice ==
    /\ boot.phase = "destroyed_again"
    /\ boot.destroy = << >>
    /\ \A kind \in (DeviceChildren \ { "descriptor_set_layout", "descriptor_pool" })
                    \cup { "wait_idle", "device", "surface", "instance" } :
          \E p \in DOMAIN boot.previous : boot.previous[p].kind = kind

\* ---- vulkano_submit_single_use_command_buffer
\* how often the call made the driver call `name`
TimesCalled(calls, name) == Cardinality({ p \in DOMAIN calls : calls[p] = name })

\* C30: vulkano_submit_single_use_command_buffer frees the command buffer
\* exactly once and destroys the temporary fence exactly once if it was
\* created (never otherwise), whichever call fails, both after the last call
\* that uses them; a fence wait that times out is reported as TIMEOUT
C30_FreedExactlyOnce ==
    single_use.phase = "returned" =>
        /\ TimesCalled(single_use.calls, "vkFreeCommandBuffers") = 1
        /\ TimesCalled(single_use.calls, "vkDestroyFence")
             = (IF single_use.answers.vkCreateFence = "VK_SUCCESS" THEN 1 ELSE 0)
        /\ \A p, q \in DOMAIN single_use.calls :
              (single_use.calls[p] \in { "vkFreeCommandBuffers", "vkDestroyFence" }
               /\ single_use.calls[q] \notin { "vkFreeCommandBuffers", "vkDestroyFence" })
                    => q < p
        /\ (TimesCalled(single_use.calls, "vkWaitForFences") = 1
            /\ single_use.answers.vkWaitForFences = "VK_TIMEOUT")
                => (single_use.code = "TIMEOUT" /\ error_code = "TIMEOUT")

\* the fence wait timed out and both the command buffer and the fence were released
C30_TimedOutAndReleased ==
    /\ single_use.phase = "returned"
    /\ single_use.answers.vkWaitForFences = "VK_TIMEOUT"
    /\ single_use.code = "TIMEOUT"
    /\ single_use.calls = SingleUseSteps \o << "vkFreeCommandBuffers", "vkDestroyFence" >>

\* C31: the single-use command buffers are allocated from, and freed to, a
\* command pool other than the one that backs the frame command buffers: no
\* vkAllocateCommandBuffers or vkFreeCommandBuffers of a single-use round trip
\* names the frame pool
C31_SingleUsePoolIsSeparate ==
    \A i \in DOMAIN transfer.calls :
        transfer.calls[i].fn \in { "vkAllocateCommandBuffers", "vkFreeCommandBuffers" }
            => transfer.calls[i].pool # transfer.frame_pool

\* C32: no command buffer, fence, staging buffer or staging memory is freed
\* or destroyed while the GPU may still be executing the submitted command
\* buffer, a fence wait that timed out included
C32_NothingReleasedWhileExecuting ==
    \A i \in DOMAIN transfer.calls :
        transfer.calls[i].fn \in ReleaseFns => ~transfer.calls[i].busy

\* C35: a vulkano_create_buffer or vulkano_create_image that fails has
\* released every driver object it had created by the time it returns
C35_FailedCreateLeaksNothing ==
    (/\ transfer.phase = "returned"
     /\ transfer.call.op \in { "create_buffer", "create_image" }
     /\ transfer.error # "OK")
        => /\ transfer.live = {}
           /\ \A i \in CallsOf(transfer.calls, CreateFns) :
                  \E j \in CallsOf(transfer.calls, ReleaseFns) :
                      j > i /\ transfer.calls[j].obj = transfer.calls[i].obj

\* a create that failed at the bind, after both the handle and the memory
\* had been made, and released both
C35_BindFailedBothReleased ==
    /\ transfer.phase = "returned"
    /\ transfer.call.op \in { "create_buffer", "create_image" }
    /\ transfer.answers.fail \in { "vkBindBufferMemory", "vkBindImageMemory" }
    /\ transfer.error # "OK"
    /\ Cardinality(CallsOf(transfer.calls, CreateFns)) = 2
    /\ Cardinality(CallsOf(transfer.calls, ReleaseFns)) = 2

\* C37: when vulkano_image_change_layout returns with an error, image->layout
\* is the layout the image had before the call
C37_FailedTransitionKeepsLayout ==
    (/\ transfer.phase = "returned"
     /\ transfer.call.op = "image_change_layout"
     /\ transfer.error # "OK")
        => transfer.image.layout = transfer.call.layout

\* C38: no driver object is destroyed or freed twice; the struct a failed
\* vulkano_create_buffer returns makes vulkano_destroy_buffer call nothing
C38_NothingReleasedTwice ==
    \A i, j \in CallsOf(transfer.calls, ReleaseFns) :
        transfer.calls[i].obj = transfer.calls[j].obj => i = j

\* C39: when vulkano_copy_to_image, vulkano_copy_to_buffer or
\* vulkano_image_change_layout returns, the single-use command buffer it
\* acquired has been freed
C39_SingleUseBufferFreedOnReturn ==
    (/\ transfer.phase = "returned"
     /\ transfer.call.op \in { "copy_to_image", "copy_to_buffer", "image_change_layout" })
        => "cmd" \notin transfer.live

\* C33: the device's one queue is created in the queue family GPU
\* confirmation selected, and the stored queue handle is queue 0 of that
\* family, whichever family index was selected
C33_QueueInSelectedFamily ==
    device_call.phase = "created"
        => /\ \A q \in device_call.queues :
                  q.family = device_call.graphics_queue_family
           /\ device_call.graphics_queue
                  = [ family |-> device_call.graphics_queue_family, index |-> 0 ]

\* C34: the default comparator ranks a format in the sRGB-nonlinear colour
\* space above one that is not, and BGRA8-sRGB above the other pixel formats
\* of the same colour space, so the selection returns an sRGB-nonlinear
\* BGRA8-sRGB format whenever the driver offers one
C34_PrefersSrgbBgra ==
    LET best == [ format |-> "B8G8R8A8_SRGB", colorSpace |-> "SRGB_NONLINEAR" ]
        offered == { format_select.formats[i] : i \in DOMAIN format_select.formats }
    IN  format_select.phase = "selected"
            => /\ \A f1, f2 \in offered :
                      (f1.colorSpace = "SRGB_NONLINEAR" /\ f2.colorSpace # "SRGB_NONLINEAR")
                          => default_surface_format_compare(f1, f2) > 0
               /\ \A f1, f2 \in offered :
                      (/\ f1.colorSpace = f2.colorSpace
                       /\ f1.format = "B8G8R8A8_SRGB" /\ f2.format # "B8G8R8A8_SRGB")
                          => default_surface_format_compare(f1, f2) > 0
               /\ best \in offered => format_select.result = best

\* C36: the render pass vulkano_begin_frame begins is the one
\* vulkano_configure_swapchain bound and the one the acquired framebuffer was
\* created with, for every valid render_pass_index
C36_BeginsConfiguredRenderPass ==
    render_pass_call.phase = "recording"
        => /\ render_pass_call.begun.renderPass = render_pass_call.swapchain_render_pass
           /\ render_pass_call.begun.renderPass
                  = render_pass_call.begun.framebuffer.render_pass

====
